---- MODULE Spec2Model ----
(***************************************************************************)
(* A model of the blossom-ai client's infrastructure:                      *)
(*   - SyncSessionManager  (core/session_manager.py), threads              *)
(*   - AsyncSessionManager (core/session_manager.py), event-loop tasks     *)
(*   - with_retry          (generators/base_generator.py)                  *)
(*   - _DualCaller/Blossom (generators/blossom.py)                         *)
(* Each subsystem has its own specification (SpecSync, SpecAsync,          *)
(* SpecRetry, SpecDispatch; SpecSession is either session manager); the    *)
(* variable kind tells which subsystem a behaviour exercises, and the      *)
(* variables of the other subsystems are left unchanged by it.             *)
(***************************************************************************)
EXTENDS Integers, Sequences, FiniteSets, TLC

(***************************************************************************)
(* Bounds of the model.                                                    *)
(***************************************************************************)
\* threads sharing one SyncSessionManager
NThreads == 3
\* get_session()/close() calls started on the SyncSessionManager
MaxSyncOps == 5

Threads == 1..NThreads
\* a SyncSessionManager constructs one session per lazy construction; the
\* ids are the order of construction (0 stands for None)
SyncSessionIds == 1..NThreads

VARIABLES
    \* ---- SyncSessionManager (one instance shared by the threads) ----
    sync_session,      \* self._session: 0 (None) or a session id
    sync_closed,       \* self._closed
    sync_lock,         \* self._lock: 0 (free) or the thread holding it
    sync_created,      \* number of requests.Session objects constructed
    sync_closeCalls,   \* per session: how often Session.close() was invoked
    sync_bornEarly,    \* the sessions constructed before any close() call
    sync_pc,           \* per thread: position in get_session()/close()
    sync_op,           \* per thread: the call it makes ("get" or "close")
    sync_out,          \* per thread: outcome of its last finished call
    sync_val,          \* per thread: the value get_session() returned
    sync_afterClose,   \* per thread: its call started after a close() returned
    sync_closeStarted, \* some close() call has been started
    sync_closeReturned,\* some close() call has returned
    sync_ops           \* calls started so far

syncVars == <<sync_session, sync_closed, sync_lock, sync_created,
              sync_bornEarly,
              sync_closeCalls, sync_pc, sync_op, sync_out, sync_val,
              sync_afterClose, sync_closeStarted, sync_closeReturned, sync_ops>>

\* event loops of the process
NLoops == 2
\* tasks (coroutines) calling into the async manager
NTasks == 2
\* aiohttp.ClientSession objects constructed by the async manager
MaxSessions == 2

Loops == 1..NLoops
Tasks == 1..NTasks
SessionIds == 1..MaxSessions

\* AsyncSessionManager keeps one instance per loop (_INSTANCES), and the
\* instances share no state: the model follows the instance of one loop,
\* which tasks of every loop may call
HomeLoop == CHOOSE l \in Loops : \A k \in Loops : l <= k

VARIABLES
    async_instances,   \* AsyncSessionManager._INSTANCES: the loops that have
                       \* their manager
    async_closed,      \* self._closed
    async_lock,        \* self._lock: 0 (free) or the task holding it
    async_sessions,    \* self._sessions: loop -> session id, or 0
    async_created,     \* number of aiohttp.ClientSession objects constructed
    sess_loop,         \* per session: the loop that ran when it was constructed
    sess_closed,       \* per session: session.closed
    conn_closed,       \* per session: session.connector.closed
    sess_died,         \* per session: it died outside the manager
    async_bornEarly,   \* the sessions constructed before any close() call
    async_closeCalls,  \* per session: close() invocations made by the manager
    async_pc,          \* per task: where its call is suspended, or "idle"
    async_loop,        \* per suspended task: the loop it runs on
    async_closing,     \* per task: the sess.close() coroutines it gathers
    async_handed,      \* per loop: the sessions get_session() returned to
                       \* callers running on that loop
    async_returns,     \* 0, 1, 2: no, one, several get_session() calls returned
    async_handedDead,  \* sessions that were not usable when get_session()
                       \* returned them
    async_lateGets,    \* what became of the get_session() calls begun after
                       \* a close() had returned
    async_closeStarted,  \* some close() call has been started
    async_closeReturned  \* 0, 1, 2: no, one, several close() calls returned

asyncVars == <<async_instances, async_closed, async_lock, async_sessions,
               async_created, sess_loop, sess_closed, conn_closed,
               sess_died, async_bornEarly,
               async_closeCalls, async_pc, async_loop, async_closing,
               async_handed, async_returns, async_handedDead, async_lateGets,
               async_closeStarted, async_closeReturned>>

(***************************************************************************)
(* State of one logical request through with_retry                         *)
(***************************************************************************)
\* the largest max_attempts a request is made with
MaxAttempts == 3
\* waits are counted in ticks, JitterSteps ticks to the second
JitterSteps == 2

VARIABLES
    retry_pc,        \* "idle", "loop" (head of the for loop), "sleep", "done"
    retry_mode,      \* "sync": sync_wrapper, "async": async_wrapper
    retry_audio,     \* the generator's _is_audio_endpoint()
    retry_max,       \* max_attempts
    retry_attempt,   \* the loop variable attempt
    retry_last,      \* last_exception (NoError for None)
    retry_wait,      \* wait_time of the last sleep, in ticks
    retry_calls,     \* wire calls made by the request
    retry_seen,      \* the kinds of wire failure the request has met
    retry_final,     \* the error the latest wire call raised
    retry_out,       \* "none", "returned", "returned_none", "raised"
    retry_raised,    \* the error that reached the caller
    retry_resp,      \* what the wire answered to the last call
    retry_reqid,     \* the request_id argument of the request
    retry_ids        \* the X-Request-ID values its wire calls carried

retryVars == <<retry_pc, retry_mode, retry_audio, retry_max, retry_attempt,
               retry_last, retry_wait, retry_calls, retry_seen, retry_final,
               retry_out, retry_raised, retry_resp, retry_reqid, retry_ids>>

(***************************************************************************)
(* State of a thread that makes and uses a Blossom client                  *)
(***************************************************************************)
VARIABLES
    disp_ctx,      \* the loop running on the thread, 0 when none is
    disp_client,   \* "none", "constructed", or "raised": Blossom() raised
    disp_where,    \* disp_ctx at the time of Blossom()
    disp_call      \* the latest call of a hybrid operation (NoCall: none)

dispVars == <<disp_ctx, disp_client, disp_where, disp_call>>

(***************************************************************************)
(* State of one call of _calculate_wait_time                               *)
(***************************************************************************)
\* the largest attempt number _calculate_wait_time is called with
MaxBackoffAttempt == 8

VARIABLES
    backoff_pc,        \* "idle", "done"
    backoff_attempt,   \* the argument attempt
    backoff_cap,       \* the argument max_backoff, in seconds
    backoff_jitter,    \* what random.uniform(0, 1) gives, in ticks
    backoff_wait       \* the wait returned, in ticks

backoffVars == <<backoff_pc, backoff_attempt, backoff_cap, backoff_jitter,
                 backoff_wait>>

(***************************************************************************)
(* State of one call of image.generate / image.generate_url, made on       *)
(* clients that differ in their api token only                             *)
(***************************************************************************)
VARIABLES
    req_pc,       \* "idle", "done"
    req_op,       \* "generate", "generate_url"
    req_mode,     \* "sync": ImageGenerator, "async": AsyncImageGenerator
    req_prompt,   \* the argument prompt, a string
    req_params,   \* the other arguments the caller set
    req_out       \* per token of a client: what the call did on that client

reqVars == <<req_pc, req_op, req_mode, req_prompt, req_params, req_out>>

(***************************************************************************)
(* State of one streamed text request: the wire calls that open the        *)
(* response, then the decoder that turns its lines into content deltas     *)
(***************************************************************************)
\* the most lines a line source delivers
MaxLines == 3

VARIABLES
    sse_pc,        \* "idle", "request", "streaming", then how it ended:
                   \* "exhausted", "done", "raised", "abandoned"
    sse_impl,      \* the decoder: "stream_sse", "astream_sse" of the mixin,
                   \* "v2_sync", "v2_async" for _stream_response
    sse_attempt,   \* attempt of with_retry round _make_request, 0 once
                   \* the wrapper has returned
    sse_unclosed,  \* responses opened with stream=True that nothing closed
    sse_read,      \* the lines pulled from the line source, oldest first
    sse_out,       \* the content deltas yielded to the consumer, in order
    sse_cause,     \* why it raised: "none", "status", "source", "timeout",
                   \* "decode"
    sse_error      \* the type of the error the consumer got, "none"

sseVars == <<sse_pc, sse_impl, sse_attempt, sse_unclosed, sse_read, sse_out,
             sse_cause, sse_error>>

(***************************************************************************)
(* State of one thread or one event loop in which clients are opened, used *)
(* and closed one after the other                                          *)
(***************************************************************************)
\* clients that can be open at a time
NClients == 2
\* open-use-close cycles made
MaxCycles == 3
\* sessions the manager constructs
MaxLifeSessions == 3

Clients == 1..NClients

VARIABLES
    life_mode,      \* "none", then "sync": generators in a thread, or
                    \* "async": Blossom clients in a running loop
    life_instance,  \* _INSTANCES holds the manager of the thread / loop
    life_closed,    \* its _closed
    life_session,   \* its cached session: _session / _sessions[loop], 0 none
    life_open,      \* the sessions constructed and not closed
    life_created,   \* number of sessions constructed
    life_client,    \* per client: "none", or "open": inside its with block
    life_born,      \* per open client: the with blocks that had been left
                    \* when it was constructed
    life_cycles,    \* with blocks left so far
    life_last       \* per open client: its latest request: "none", "ok",
                    \* "RuntimeError"

lifeVars == <<life_mode, life_instance, life_closed, life_session, life_open,
              life_created, life_client, life_born, life_cycles, life_last>>

(***************************************************************************)
(* State of the model cache shared by the callers of DynamicModel          *)
(***************************************************************************)
\* coroutines of the one event loop that call the async initialisation
NCoros == 2
\* calls each caller makes
MaxCacheCalls == 2
\* times the cached list grows older than its ttl
MaxExpiries == 1

Coros == 1..NCoros
\* a second thread, which calls the sync initialisation
Worker == NCoros + 1
CacheCallers == 1..(NCoros + 1)

VARIABLES
    cache_valid,     \* _ModelCache.is_valid(): initialized and younger than ttl
    cache_lock,      \* _ModelCache.lock (threading.Lock): 0 or its holder
    cache_pc,        \* per caller: "idle", "fetching" (under the lock),
                     \* "blocked" (inside lock.acquire())
    cache_calls,     \* per caller: calls started
    cache_ret,       \* per caller: what its last finished call returned
    cache_waited,    \* the callers whose present or last call had to wait
                     \* in lock.acquire()
    cache_expiries   \* times the ttl ran out

cacheVars == <<cache_valid, cache_lock, cache_pc, cache_calls, cache_ret,
               cache_waited, cache_expiries>>

(***************************************************************************)
(* State of one request of a base API client (base_client.py)              *)
(***************************************************************************)
VARIABLES
    api_pc,        \* "idle", "sending" (an attempt is due), "done"
    api_impl,      \* "BaseAPI" or "AsyncBaseAPI"
    api_method,    \* the method argument
    api_token,     \* self.api_token
    api_kwargs,    \* the headers and params the caller passed
    api_attempts,  \* requests put on the wire
    api_headers,   \* the headers of the latest of them
    api_query,     \* its query parameters
    api_out        \* "none", "returned", "raised"

apiVars == <<api_pc, api_impl, api_method, api_token, api_kwargs,
             api_attempts, api_headers, api_query, api_out>>

\* which subsystem a run exercises
VARIABLE kind

\* what the actions of one subsystem leave alone
notSync ==
    <<kind, asyncVars, retryVars, dispVars, backoffVars, reqVars,
      sseVars, lifeVars, cacheVars, apiVars>>
notAsync ==
    <<kind, syncVars, retryVars, dispVars, backoffVars, reqVars, sseVars,
      lifeVars, cacheVars, apiVars>>
notRetry ==
    <<kind, syncVars, asyncVars, dispVars, backoffVars, reqVars, sseVars,
      lifeVars, cacheVars, apiVars>>
notDisp ==
    <<kind, syncVars, asyncVars, retryVars, backoffVars, reqVars,
      sseVars, lifeVars, cacheVars, apiVars>>
notBackoff ==
    <<kind, syncVars, asyncVars, retryVars, dispVars, reqVars, sseVars,
      lifeVars, cacheVars, apiVars>>
notReq ==
    <<kind, syncVars, asyncVars, retryVars, dispVars, backoffVars,
      sseVars, lifeVars, cacheVars, apiVars>>
notSse ==
    <<kind, syncVars, asyncVars, retryVars, dispVars, backoffVars,
      reqVars, lifeVars, cacheVars, apiVars>>
notLife ==
    <<kind, syncVars, asyncVars, retryVars, dispVars, backoffVars,
      reqVars, sseVars, cacheVars, apiVars>>
notCache ==
    <<kind, syncVars, asyncVars, retryVars, dispVars, backoffVars,
      reqVars, sseVars, lifeVars, apiVars>>
notApi ==
    <<kind, syncVars, asyncVars, retryVars, dispVars, backoffVars,
      reqVars, sseVars, lifeVars, cacheVars>>

\* a get_session() that would hand out sessions of a closed manager
GetSessionRefuses_never(closed) == FALSE

\* get_session of both managers, first statement:
\*     if self._closed: raise RuntimeError("... is closed")
GetSessionRefuses(closed) == closed


(***************************************************************************)
(* SyncSessionManager                                                      *)
(***************************************************************************)
\* SyncSessionManager.__init__: no session, open, lock free
InitSync ==
    /\ sync_session = 0
    /\ sync_closed = FALSE
    /\ sync_lock = 0
    /\ sync_created = 0
    /\ sync_closeCalls = [s \in SyncSessionIds |-> 0]
    /\ sync_bornEarly = {}
    /\ sync_pc = [t \in Threads |-> "idle"]
    /\ sync_op = [t \in Threads |-> "none"]
    /\ sync_out = [t \in Threads |-> "none"]
    /\ sync_val = [t \in Threads |-> 0]
    /\ sync_afterClose = [t \in Threads |-> FALSE]
    /\ sync_closeStarted = FALSE
    /\ sync_closeReturned = FALSE
    /\ sync_ops = 0

\* a thread calls get_session()
SyncCallGetSession(t) ==
    /\ kind = "sync"
    /\ sync_pc[t] = "idle"
    /\ sync_ops < MaxSyncOps
    /\ sync_ops' = sync_ops + 1
    /\ sync_pc' = [sync_pc EXCEPT ![t] = "g_closed"]
    /\ sync_op' = [sync_op EXCEPT ![t] = "get"]
    /\ sync_out' = [sync_out EXCEPT ![t] = "none"]
    /\ sync_val' = [sync_val EXCEPT ![t] = 0]
    /\ sync_afterClose' = [sync_afterClose EXCEPT ![t] = sync_closeReturned]
    /\ UNCHANGED <<notSync, sync_bornEarly, sync_session, sync_closed, sync_lock, sync_created,
                   sync_closeCalls, sync_closeStarted, sync_closeReturned>>

\* get_session, line 69-70: if self._closed: raise RuntimeError
SyncGetCheckClosed(t) ==
    /\ sync_pc[t] = "g_closed"
    /\ IF GetSessionRefuses(sync_closed)
         THEN /\ sync_pc' = [sync_pc EXCEPT ![t] = "idle"]
              /\ sync_out' = [sync_out EXCEPT ![t] = "raised"]
         ELSE /\ sync_pc' = [sync_pc EXCEPT ![t] = "g_fast"]
              /\ UNCHANGED sync_out
    /\ UNCHANGED <<notSync, sync_bornEarly, sync_op, sync_session, sync_closed, sync_lock, sync_created,
                   sync_closeCalls, sync_val, sync_afterClose,
                   sync_closeStarted, sync_closeReturned, sync_ops>>

\* get_session, line 71: if self._session is not None
SyncGetFastCheck(t) ==
    /\ sync_pc[t] = "g_fast"
    /\ sync_pc' = [sync_pc EXCEPT ![t] =
                      IF sync_session # 0 THEN "g_fastret" ELSE "g_lock"]
    /\ UNCHANGED <<notSync, sync_bornEarly, sync_op, sync_session, sync_closed, sync_lock, sync_created,
                   sync_closeCalls, sync_out, sync_val, sync_afterClose,
                   sync_closeStarted, sync_closeReturned, sync_ops>>

\* get_session, line 72: return self._session (a second read of the field)
SyncGetFastReturn(t) ==
    /\ sync_pc[t] = "g_fastret"
    /\ sync_pc' = [sync_pc EXCEPT ![t] = "idle"]
    /\ sync_out' = [sync_out EXCEPT ![t] = "returned"]
    /\ sync_val' = [sync_val EXCEPT ![t] = sync_session]
    /\ UNCHANGED <<notSync, sync_bornEarly, sync_op, sync_session, sync_closed, sync_lock, sync_created,
                   sync_closeCalls, sync_afterClose,
                   sync_closeStarted, sync_closeReturned, sync_ops>>

\* get_session, line 73: with self._lock (blocks while another thread holds it)
SyncGetLock(t) ==
    /\ sync_pc[t] = "g_lock"
    /\ sync_lock = 0
    /\ sync_lock' = t
    /\ sync_pc' = [sync_pc EXCEPT ![t] = "g_crit"]
    /\ UNCHANGED <<notSync, sync_bornEarly, sync_op, sync_session, sync_closed, sync_created,
                   sync_closeCalls, sync_out, sync_val, sync_afterClose,
                   sync_closeStarted, sync_closeReturned, sync_ops>>

\* a get_session without the second check under the lock
SyncNeedsCreate_NoRecheck == TRUE

\* get_session, line 74: if self._session is None (the check under the lock)
SyncNeedsCreate == sync_session = 0

\* get_session, lines 74-75: create the session if there is still none
SyncGetCreate(t) ==
    /\ sync_pc[t] = "g_crit"
    /\ sync_lock = t
    /\ IF SyncNeedsCreate
         THEN /\ sync_created' = sync_created + 1
              /\ sync_session' = sync_created + 1
              /\ sync_bornEarly' = IF sync_closeStarted THEN sync_bornEarly
                                   ELSE sync_bornEarly \cup {sync_created + 1}
         ELSE UNCHANGED <<sync_created, sync_session, sync_bornEarly>>
    /\ sync_pc' = [sync_pc EXCEPT ![t] = "g_ret"]
    /\ UNCHANGED <<notSync, sync_op, sync_closed, sync_lock, sync_closeCalls, sync_out,
                   sync_val, sync_afterClose,
                   sync_closeStarted, sync_closeReturned, sync_ops>>

\* get_session, line 76: return self._session, leaving the with-block
SyncGetReturn(t) ==
    /\ sync_pc[t] = "g_ret"
    /\ sync_lock = t
    /\ sync_lock' = 0
    /\ sync_pc' = [sync_pc EXCEPT ![t] = "idle"]
    /\ sync_out' = [sync_out EXCEPT ![t] = "returned"]
    /\ sync_val' = [sync_val EXCEPT ![t] = sync_session]
    /\ UNCHANGED <<notSync, sync_bornEarly, sync_op, sync_session, sync_closed, sync_created,
                   sync_closeCalls, sync_afterClose,
                   sync_closeStarted, sync_closeReturned, sync_ops>>

\* a thread calls close()
SyncCallClose(t) ==
    /\ kind = "sync"
    /\ sync_pc[t] = "idle"
    /\ sync_ops < MaxSyncOps
    /\ sync_ops' = sync_ops + 1
    /\ sync_pc' = [sync_pc EXCEPT ![t] = "c_lock"]
    /\ sync_op' = [sync_op EXCEPT ![t] = "close"]
    /\ sync_out' = [sync_out EXCEPT ![t] = "none"]
    /\ sync_val' = [sync_val EXCEPT ![t] = 0]
    /\ sync_afterClose' = [sync_afterClose EXCEPT ![t] = sync_closeReturned]
    /\ sync_closeStarted' = TRUE
    /\ UNCHANGED <<notSync, sync_bornEarly, sync_session, sync_closed, sync_lock, sync_created,
                   sync_closeCalls, sync_closeReturned>>

\* close, line 95: with self._lock
SyncCloseLock(t) ==
    /\ sync_pc[t] = "c_lock"
    /\ sync_lock = 0
    /\ sync_lock' = t
    /\ sync_pc' = [sync_pc EXCEPT ![t] = "c_check"]
    /\ UNCHANGED <<notSync, sync_bornEarly, sync_op, sync_session, sync_closed, sync_created,
                   sync_closeCalls, sync_out, sync_val, sync_afterClose,
                   sync_closeStarted, sync_closeReturned, sync_ops>>

\* close, line 96: if self._closed: return
SyncCloseSkips == sync_closed

\* close, lines 96-98: already closed -> return; else look at self._session
SyncCloseCheck(t) ==
    /\ sync_pc[t] = "c_check"
    /\ sync_lock = t
    /\ IF SyncCloseSkips
         THEN /\ sync_lock' = 0
              /\ sync_pc' = [sync_pc EXCEPT ![t] = "idle"]
              /\ sync_out' = [sync_out EXCEPT ![t] = "returned"]
              /\ sync_closeReturned' = TRUE
         ELSE /\ sync_pc' = [sync_pc EXCEPT ![t] =
                     IF sync_session # 0 THEN "c_sessclose" ELSE "c_setclosed"]
              /\ UNCHANGED <<sync_lock, sync_out, sync_closeReturned>>
    /\ UNCHANGED <<notSync, sync_bornEarly, sync_op, sync_session, sync_closed, sync_created, sync_closeCalls,
                   sync_val, sync_afterClose, sync_closeStarted, sync_ops>>

\* close, line 99: self._session.close()
SyncCloseSession(t) ==
    /\ sync_pc[t] = "c_sessclose"
    /\ sync_lock = t
    /\ sync_closeCalls' = [sync_closeCalls EXCEPT ![sync_session] = @ + 1]
    /\ sync_pc' = [sync_pc EXCEPT ![t] = "c_setnone"]
    /\ UNCHANGED <<notSync, sync_bornEarly, sync_op, sync_session, sync_closed, sync_lock, sync_created,
                   sync_out, sync_val, sync_afterClose,
                   sync_closeStarted, sync_closeReturned, sync_ops>>

\* close, line 100: self._session = None
SyncCloseSetNone(t) ==
    /\ sync_pc[t] = "c_setnone"
    /\ sync_lock = t
    /\ sync_session' = 0
    /\ sync_pc' = [sync_pc EXCEPT ![t] = "c_setclosed"]
    /\ UNCHANGED <<notSync, sync_bornEarly, sync_op, sync_closed, sync_lock, sync_created, sync_closeCalls,
                   sync_out, sync_val, sync_afterClose,
                   sync_closeStarted, sync_closeReturned, sync_ops>>

\* close, line 101: self._closed = True
SyncCloseSetClosed(t) ==
    /\ sync_pc[t] = "c_setclosed"
    /\ sync_lock = t
    /\ sync_closed' = TRUE
    /\ sync_pc' = [sync_pc EXCEPT ![t] = "c_release"]
    /\ UNCHANGED <<notSync, sync_bornEarly, sync_op, sync_session, sync_lock, sync_created, sync_closeCalls,
                   sync_out, sync_val, sync_afterClose,
                   sync_closeStarted, sync_closeReturned, sync_ops>>

\* close: leaving the with-block releases the lock; close() returns None
SyncCloseReturn(t) ==
    /\ sync_pc[t] = "c_release"
    /\ sync_lock = t
    /\ sync_lock' = 0
    /\ sync_pc' = [sync_pc EXCEPT ![t] = "idle"]
    /\ sync_out' = [sync_out EXCEPT ![t] = "returned"]
    /\ sync_closeReturned' = TRUE
    /\ UNCHANGED <<notSync, sync_bornEarly, sync_op, sync_session, sync_closed, sync_created, sync_closeCalls,
                   sync_val, sync_afterClose, sync_closeStarted, sync_ops>>

SyncStep(t) ==
    \/ SyncCallGetSession(t)
    \/ SyncGetCheckClosed(t)
    \/ SyncGetFastCheck(t)
    \/ SyncGetFastReturn(t)
    \/ SyncGetLock(t)
    \/ SyncGetCreate(t)
    \/ SyncGetReturn(t)
    \/ SyncCallClose(t)
    \/ SyncCloseLock(t)
    \/ SyncCloseCheck(t)
    \/ SyncCloseSession(t)
    \/ SyncCloseSetNone(t)
    \/ SyncCloseSetClosed(t)
    \/ SyncCloseReturn(t)

(***************************************************************************)
(* AsyncSessionManager                                                     *)
(***************************************************************************)
\* the module is imported: no manager exists yet
InitAsync ==
    /\ async_instances = {}
    /\ async_closed = FALSE
    /\ async_lock = 0
    /\ async_sessions = [l \in Loops |-> 0]
    /\ async_created = 0
    /\ sess_loop = [s \in SessionIds |-> 0]
    /\ sess_closed = [s \in SessionIds |-> FALSE]
    /\ conn_closed = [s \in SessionIds |-> FALSE]
    /\ sess_died = [s \in SessionIds |-> FALSE]
    /\ async_bornEarly = {}
    /\ async_closeCalls = [s \in SessionIds |-> 0]
    /\ async_pc = [t \in Tasks |-> "idle"]
    /\ async_loop = [t \in Tasks |-> 0]
    /\ async_closing = [t \in Tasks |-> {}]
    /\ async_handed = [l \in Loops |-> {}]
    /\ async_returns = 0
    /\ async_handedDead = {}
    /\ async_lateGets = {}
    /\ async_closeStarted = FALSE
    /\ async_closeReturned = 0

\* asyncio.get_running_loop() in a context: the running loop, or 0 when the
\* call raises RuntimeError because no loop is running (context 0)
get_running_loop(ctx) == ctx

\* a session the transport of which can carry a request
SessionUsable(s) == ~sess_closed[s] /\ ~conn_closed[s]

\* an _is_alive that does not look at the connector
_is_alive_session_only(s) == ~sess_closed[s]

\* an _is_alive for which every cached session is dead
_is_alive_never(s) == FALSE

\* AsyncSessionManager._is_alive
_is_alive(s) == ~sess_closed[s] /\ ~conn_closed[s]

\* a cache with one slot, whatever loop is running
SessionKey_of_manager(l) == HomeLoop

\* get_session, lines 139-140: the cache is keyed by the running loop
SessionKey(l) == get_running_loop(l)

\* AsyncSessionManager.__new__/__init__ called while the home loop runs: the
\* loop's manager is made on first use and found again afterwards
AsyncNew ==
    /\ kind = "async"
    /\ get_running_loop(HomeLoop) # 0
    /\ async_instances' = async_instances \cup {get_running_loop(HomeLoop)}
    /\ UNCHANGED <<notAsync, sess_died, async_bornEarly, async_closed, async_lock, async_sessions,
                   async_created, sess_loop, sess_closed,
                   conn_closed, async_closeCalls, async_pc,
                   async_loop, async_closing, async_handed, async_returns,
                   async_handedDead, async_lateGets,
                   async_closeStarted, async_closeReturned>>

\* what a get_session() call leaves behind when it is over (returned,
\* raised) or suspends: late is whether it began after a close() had returned
NoteGet(late, what) ==
    async_lateGets' = IF late THEN async_lateGets \cup {what}
                      ELSE async_lateGets

\* get_session returns session s to the caller on loop l
AsyncReturnSession(l, s) ==
    /\ async_handed' = [async_handed EXCEPT ![l] = @ \cup {s}]
    /\ async_returns' = IF async_returns = 0 THEN 1 ELSE 2
    /\ async_handedDead' = IF SessionUsable(s) THEN async_handedDead
                           ELSE async_handedDead \cup {s}

\* get_session, lines 143-149: the body of `async with self._lock`; the lock
\* is free, and nothing in the body suspends, so it is taken and released
\* within the step
AsyncGetLocked(l) ==
    LET k == SessionKey(l)
        s == async_sessions[k]
        new == async_created + 1
    IN  IF s # 0 /\ _is_alive(s)
          THEN /\ AsyncReturnSession(l, s)
               /\ UNCHANGED <<async_sessions, async_created, sess_loop,
                              async_bornEarly>>
          ELSE /\ async_created < MaxSessions
               /\ async_created' = new
               /\ sess_loop' = [sess_loop EXCEPT ![new] = get_running_loop(l)]
               /\ async_bornEarly' = IF async_closeStarted THEN async_bornEarly
                                     ELSE async_bornEarly \cup {new}
               /\ async_sessions' = [async_sessions EXCEPT ![k] = new]
               /\ AsyncReturnSession(l, new)

\* `await mgr.get_session()` in a task on loop l, lines 137-143: runs to the
\* return, the raise, or the suspension on a lock that close() holds
AsyncGetSession(t, l) ==
    /\ async_pc[t] = "idle"
    /\ HomeLoop \in async_instances
    /\ LET s == async_sessions[SessionKey(l)]
           late == async_closeReturned > 0
       IN  IF GetSessionRefuses(async_closed)
             THEN /\ NoteGet(late, "raised")
                  /\ UNCHANGED <<async_sessions, async_created, sess_loop,
                                 async_bornEarly, async_handed, async_returns, async_handedDead,
                                 async_pc, async_loop>>
             ELSE IF s # 0 /\ _is_alive(s)
               THEN /\ AsyncReturnSession(l, s)
                    /\ NoteGet(late, "returned")
                    /\ UNCHANGED <<async_sessions, async_created, sess_loop,
                                   async_bornEarly, async_pc, async_loop>>
               ELSE IF async_lock = 0
                 THEN /\ AsyncGetLocked(l)
                      /\ NoteGet(late, "returned")
                      /\ UNCHANGED <<async_pc, async_loop>>
                 ELSE /\ async_pc' = [async_pc EXCEPT ![t] = "g_wait"]
                      /\ async_loop' = [async_loop EXCEPT ![t] = l]
                      /\ NoteGet(late, "suspended")
                      /\ UNCHANGED <<async_sessions, async_created, sess_loop,
                                     async_bornEarly, async_handed,
                                     async_returns, async_handedDead>>
    /\ UNCHANGED <<notAsync, sess_died, async_instances, async_closed, async_lock,
                   sess_closed, conn_closed, async_closeCalls,
                   async_closing, async_closeStarted, async_closeReturned>>

\* get_session, line 143: the lock was released and this waiter takes it
AsyncGetResume(t) ==
    /\ async_pc[t] = "g_wait"
    /\ async_lock = 0
    /\ AsyncGetLocked(async_loop[t])
    /\ async_pc' = [async_pc EXCEPT ![t] = "idle"]
    /\ async_loop' = [async_loop EXCEPT ![t] = 0]
    /\ UNCHANGED <<notAsync, sess_died, async_instances, async_closed, async_lock,
                   sess_closed, conn_closed, async_closeCalls,
                   async_closing, async_lateGets, async_closeStarted,
                   async_closeReturned>>

\* a close() without the `if not sess.closed` filter
SessionsToClose_all ==
    {s \in SessionIds : \E l \in Loops : async_sessions[l] = s}

\* close, line 182: sess.close() for sess in self._sessions.values()
\*                  if not sess.closed
SessionsToClose ==
    {s \in SessionIds : /\ \E l \in Loops : async_sessions[l] = s
                        /\ ~sess_closed[s]}

\* close() returns
AsyncCloseReturns ==
    async_closeReturned' = IF async_closeReturned = 0 THEN 1 ELSE 2

\* close, lines 180-185: the body of `async with self._lock`, entered by
\* task t with the lock free; awaiting a gather of nothing does not suspend
AsyncCloseLocked(t) ==
    IF SessionsToClose = {}
      THEN /\ async_closed' = TRUE
           /\ AsyncCloseReturns
           /\ async_pc' = [async_pc EXCEPT ![t] = "idle"]
           /\ UNCHANGED <<async_lock, async_closing>>
      ELSE /\ async_lock' = t
           /\ async_closing' = [async_closing EXCEPT ![t] = SessionsToClose]
           /\ async_pc' = [async_pc EXCEPT ![t] = "c_gather"]
           /\ UNCHANGED <<async_closed, async_closeReturned>>

\* close, line 178: if self._closed: return
CloseSkips == async_closed

\* `await mgr.close()` in a task, lines 178-181: returns at once when
\* closed, else takes the lock or suspends on it; close() never asks which
\* loop it runs on
AsyncClose(t) ==
    /\ async_pc[t] = "idle"
    /\ HomeLoop \in async_instances
    /\ async_closeStarted' = TRUE
    /\ IF CloseSkips
         THEN /\ AsyncCloseReturns
              /\ UNCHANGED <<async_closed, async_lock, async_closing,
                             async_pc>>
         ELSE IF async_lock = 0
           THEN AsyncCloseLocked(t)
           ELSE /\ async_pc' = [async_pc EXCEPT ![t] = "c_wait"]
                /\ UNCHANGED <<async_closed, async_lock, async_closing,
                               async_closeReturned>>
    /\ UNCHANGED <<notAsync, sess_died, async_loop, async_bornEarly, async_instances, async_sessions, async_created,
                   sess_loop, sess_closed, conn_closed, async_closeCalls, async_handed, async_returns, async_handedDead,
                   async_lateGets>>

\* close, line 180: the lock was released and this waiter takes it
AsyncCloseResume(t) ==
    /\ async_pc[t] = "c_wait"
    /\ async_lock = 0
    /\ AsyncCloseLocked(t)
    /\ UNCHANGED <<notAsync, sess_died, async_loop, async_bornEarly, async_instances, async_sessions, async_created,
                   sess_loop, sess_closed, conn_closed, async_closeCalls, async_handed, async_returns, async_handedDead,
                   async_lateGets, async_closeStarted>>

\* close, lines 181-184: one of the gathered sess.close() coroutines runs
AsyncCloseSession(t, s) ==
    /\ async_pc[t] = "c_gather"
    /\ s \in async_closing[t]
    /\ async_closing' = [async_closing EXCEPT ![t] = @ \ {s}]
    /\ async_closeCalls' = [async_closeCalls EXCEPT ![s] = @ + 1]
    /\ sess_closed' = [sess_closed EXCEPT ![s] = TRUE]
    /\ conn_closed' = [conn_closed EXCEPT ![s] = TRUE]
    /\ UNCHANGED <<notAsync, sess_died, async_bornEarly, async_instances, async_closed, async_lock,
                   async_sessions, async_created, sess_loop,
                   async_pc, async_loop, async_handed, async_returns,
                   async_handedDead, async_lateGets,
                   async_closeStarted, async_closeReturned>>

\* close, line 185: the gather is done (return_exceptions=True: it does not
\* raise); self._closed = True, and the lock is released
AsyncCloseFinish(t) ==
    /\ async_pc[t] = "c_gather"
    /\ async_closing[t] = {}
    /\ async_lock = t
    /\ async_closed' = TRUE
    /\ async_lock' = 0
    /\ AsyncCloseReturns
    /\ async_pc' = [async_pc EXCEPT ![t] = "idle"]
    /\ async_loop' = [async_loop EXCEPT ![t] = 0]
    /\ UNCHANGED <<notAsync, sess_died, async_bornEarly, async_instances, async_sessions, async_created,
                   sess_loop, sess_closed, conn_closed, async_closeCalls, async_closing, async_handed, async_returns,
                   async_handedDead, async_lateGets, async_closeStarted>>

\* the environment: a cached, usable session loses its transport (the
\* session is closed) or its connector is closed
SessionDies(s, how) ==
    /\ \E l \in Loops : async_sessions[l] = s
    /\ SessionUsable(s)
    /\ IF how = "session"
         THEN /\ sess_closed' = [sess_closed EXCEPT ![s] = TRUE]
              /\ UNCHANGED conn_closed
         ELSE /\ conn_closed' = [conn_closed EXCEPT ![s] = TRUE]
              /\ UNCHANGED sess_closed
    /\ sess_died' = [sess_died EXCEPT ![s] = TRUE]
    /\ UNCHANGED <<notAsync, async_bornEarly, async_instances, async_closed, async_lock,
                   async_sessions, async_created, sess_loop,
                   async_closeCalls, async_pc, async_loop,
                   async_closing, async_handed, async_returns, async_handedDead,
                   async_lateGets, async_closeStarted, async_closeReturned>>

AsyncStep ==
    \/ AsyncNew
    \/ \E t \in Tasks, l \in Loops : AsyncGetSession(t, l)
    \/ \E t \in Tasks : AsyncGetResume(t)
    \/ \E t \in Tasks : AsyncClose(t)
    \/ \E t \in Tasks : AsyncCloseResume(t)
    \/ \E t \in Tasks, s \in SessionIds : AsyncCloseSession(t, s)
    \/ \E t \in Tasks : AsyncCloseFinish(t)
    \/ \E s \in SessionIds, how \in {"session", "connector"} : SessionDies(s, how)

(***************************************************************************)
(* with_retry around _make_request                                         *)
(***************************************************************************)
\* core/config.py: LIMITS.MAX_RETRIES, the default max_attempts
MAX_RETRIES == 3
\* a retryable set that takes in every 5xx status of the wire
RETRYABLE_HTTP_CODES_every_5xx == {500, 502, 503, 504}
RETRYABLE_HTTP_CODES == {502, 503, 504}
DEFAULT_RETRY_AFTER == 60
MAX_EXPONENTIAL_BACKOFF == 32
MAX_CHUNK_ENCODING_BACKOFF == 16

\* what the wire can answer to one call: a transport failure, or a status
\* with an optional Retry-After header and an optional retry_after field in
\* the JSON body ({} absent or unparseable, {n} the number n, {MalformedHint}
\* a value that is no number, such as the string "soon")
MalformedHint == -1
TransportFailures == {"chunked", "timeout", "conn"}
Statuses == {200, 400, 401, 402, 404, 429, 500, 502, 503, 504, 520}
HeaderHints == {{}, {7}}
BodyHints == {{}, {0}, {5}, {MalformedHint}}

WireResponses ==
    {[fail |-> f, status |-> 0, header |-> {}, body |-> {}] :
        f \in TransportFailures}
    \cup
    {r \in [fail : {"none"}, status : Statuses,
            header : HeaderHints, body : BodyHints] :
        /\ r.status < 429 => r.header = {}
        /\ r.status # 429 => r.body = {}}

\* no wire call was made yet
NoResponse == [fail |-> "none", status |-> 0, header |-> {}, body |-> {}]

\* the kind of a wire answer, without its hints
WireClass(r) == [fail |-> r.fail, status |-> r.status]

\* errors are objects: id tells two errors of the same type apart (the
\* number of the wire call that raised it)
NoError ==
    [type |-> "none", status |-> 0, retry_after |-> 0, header |-> {}, id |-> 0]

Error(type, status, retry_after, header) ==
    [type |-> type, status |-> status, retry_after |-> retry_after,
     header |-> header, id |-> 0]

Min(a, b) == IF a <= b THEN a ELSE b

\* a backoff without its cap
_calculate_wait_time_uncapped(attempt, max_backoff, j) ==
    (2 ^ attempt) * JitterSteps + j

\* _calculate_wait_time: min(2 ** attempt + random.uniform(0, 1), max_backoff)
\* in ticks, j the jitter drawn
_calculate_wait_time(attempt, max_backoff, j) ==
    Min((2 ^ attempt) * JitterSteps + j, max_backoff * JitterSteps)

\* _get_retry_after: the Retry-After header as an int, None ({}) without
_get_retry_after(header) == header

\* a handler that has no clause for 401
_handle_http_error_without_401(status, body, audio) ==
    IF status = 402
      THEN IF audio THEN Error("ignore", 402, 0, {})
           ELSE Error("BlossomError", 402, 0, {})
    ELSE IF status = 429
      THEN Error("RateLimitError", 429,
                 IF body = {} THEN DEFAULT_RETRY_AFTER
                 ELSE CHOOSE n \in body : TRUE, {})
    ELSE Error("pass", status, 0, {})

\* a handler that has no clause for 402
_handle_http_error_without_402(status, body, audio) ==
    IF status = 401 THEN Error("AuthenticationError", 401, 0, {})
    ELSE IF status = 429
      THEN Error("RateLimitError", 429,
                 IF body = {} THEN DEFAULT_RETRY_AFTER
                 ELSE CHOOSE n \in body : TRUE, {})
    ELSE Error("pass", status, 0, {})

\* _handle_http_error: the error it raises for a status >= 400, "ignore"
\* when it returns True, "pass" when it returns False
_handle_http_error(status, body, audio) ==
    IF status = 401 THEN Error("AuthenticationError", 401, 0, {})
    ELSE IF status = 402
      THEN IF audio THEN Error("ignore", 402, 0, {})
           ELSE Error("BlossomError", 402, 0, {})
    ELSE IF status = 429
      THEN Error("RateLimitError", 429,
                 IF body = {} THEN DEFAULT_RETRY_AFTER
                 ELSE CHOOSE n \in body : TRUE, {})
    ELSE Error("pass", status, 0, {})

\* a wire call whose timeout surfaces as a connection error of the client
\* library (aiohttp's ServerTimeoutError is a ClientConnectionError)
_make_request_timeout_as_connection_error(mode, audio, r) ==
    IF r.fail = "chunked"
      THEN Error(IF mode = "sync" THEN "ChunkedEncodingError"
                 ELSE "ClientPayloadError", 0, 0, {})
    ELSE IF r.fail \in {"timeout", "conn"}
      THEN Error(IF mode = "sync" THEN "ConnectionError"
                 ELSE "ClientConnectionError", 0, 0, {})
    ELSE IF r.status < 400 THEN NoError
    ELSE LET h == _handle_http_error(r.status, r.body, audio)
         IN  IF h.type = "ignore" THEN NoError
             ELSE IF h.type = "pass"
               THEN Error(IF mode = "sync" THEN "HTTPError"
                          ELSE "ClientResponseError", r.status, 0, r.header)
             ELSE h

\* SyncGenerator._make_request / AsyncGenerator._make_request: one wire call;
\* NoError when it returns the response, else the error it raises
_make_request(mode, audio, r) ==
    IF r.fail = "chunked"
      THEN Error(IF mode = "sync" THEN "ChunkedEncodingError"
                 ELSE "ClientPayloadError", 0, 0, {})
    ELSE IF r.fail = "timeout"
      THEN Error(IF mode = "sync" THEN "Timeout" ELSE "TimeoutError", 0, 0, {})
    ELSE IF r.fail = "conn"
      THEN Error(IF mode = "sync" THEN "ConnectionError"
                 ELSE "ClientConnectionError", 0, 0, {})
    ELSE IF r.status < 400 THEN NoError
    ELSE LET h == _handle_http_error(r.status, r.body, audio)
         IN  IF h.type = "ignore" THEN NoError
             ELSE IF h.type = "pass"
               THEN Error(IF mode = "sync" THEN "HTTPError"
                          ELSE "ClientResponseError", r.status, 0, r.header)
             ELSE h

\* the outcome of an except clause: sleep and go round again, re-raise the
\* error it caught, or fail itself with a new error (throws)
Retry(wait) ==
    [retry |-> TRUE, wait |-> wait, noted |-> TRUE, throws |-> "none"]
\* an except clause that sleeps and goes round again where it should raise
Raise_and_retry(noted) ==
    [retry |-> TRUE, wait |-> 0, noted |-> noted, throws |-> "none"]

Raise(noted) ==
    [retry |-> FALSE, wait |-> 0, noted |-> noted, throws |-> "none"]
Throw(type) ==
    [retry |-> FALSE, wait |-> 0, noted |-> TRUE, throws |-> type]

\* the rate-limit clause of both wrappers, in seconds
\*     wait_time = e.retry_after or DEFAULT_RETRY_AFTER
RateLimitWait(e) ==
    IF e.retry_after # 0 THEN e.retry_after ELSE DEFAULT_RETRY_AFTER

\* time.sleep(wait_time) / await asyncio.sleep(wait_time) of the rate-limit
\* clause: a wait_time that is no number makes sleep raise TypeError, out
\* of the except clause and so out of the wrapper
RateLimitSleep(e) ==
    IF RateLimitWait(e) = MalformedHint
      THEN Throw("TypeError")
      ELSE Retry(RateLimitWait(e) * JitterSteps)

\* both wrappers: attempt < max_attempts - 1
AttemptsRemain(attempt, max_attempts) == attempt < max_attempts - 1

\* sync_wrapper, lines 80-106: the except clauses, in order; noted is
\* whether the clause assigns last_exception
sync_wrapper_except(e, attempt, max_attempts, j) ==
    IF e.type = "RateLimitError"
      THEN IF AttemptsRemain(attempt, max_attempts)
             THEN RateLimitSleep(e)
             ELSE Raise(TRUE)
    ELSE IF e.type = "HTTPError"
      THEN IF /\ e.status \in RETRYABLE_HTTP_CODES
              /\ AttemptsRemain(attempt, max_attempts)
             THEN LET retry_after == _get_retry_after(e.header)
                  IN  IF retry_after # {} /\ retry_after # {0}
                        THEN Retry((CHOOSE n \in retry_after : TRUE)
                                       * JitterSteps)
                        ELSE Retry(_calculate_wait_time(
                                       attempt, MAX_EXPONENTIAL_BACKOFF, j))
             ELSE Raise(TRUE)
    ELSE IF e.type = "ChunkedEncodingError"
      THEN IF AttemptsRemain(attempt, max_attempts)
             THEN Retry(_calculate_wait_time(
                            attempt, MAX_CHUNK_ENCODING_BACKOFF, j))
             ELSE Raise(TRUE)
    ELSE Raise(FALSE)

\* async_wrapper, lines 115-141: the except clauses, in order
async_wrapper_except(e, attempt, max_attempts, j) ==
    IF e.type = "RateLimitError"
      THEN IF AttemptsRemain(attempt, max_attempts)
             THEN RateLimitSleep(e)
             ELSE Raise(TRUE)
    ELSE IF e.type = "ClientResponseError"
      THEN IF /\ e.status \in RETRYABLE_HTTP_CODES
              /\ AttemptsRemain(attempt, max_attempts)
             THEN Retry(_calculate_wait_time(
                            attempt, MAX_EXPONENTIAL_BACKOFF, j))
             ELSE Raise(TRUE)
    ELSE IF e.type \in {"ClientPayloadError", "ClientConnectionError"}
      THEN IF AttemptsRemain(attempt, max_attempts)
             THEN Retry(_calculate_wait_time(
                            attempt, MAX_CHUNK_ENCODING_BACKOFF, j))
             ELSE Raise(TRUE)
    ELSE Raise(FALSE)

\* a wrapper that raises a new error in place of the one it caught
Reraised_wrapped(e) == Error("BlossomError", e.status, 0, {})

\* both wrappers: the bare `raise` of an except clause re-raises the error
\* object that was caught
Reraised(e) == e

\* request_id=None: the caller names no id
NoRequestId == <<"None", 0>>

\* an id the caller passes as request_id=
CallerRequestId == <<"caller", 0>>

\* _generate_request_id, lines 174-176: str(uuid.uuid4()), a new value on
\* every call; n numbers the calls
_generate_request_id(n) == <<"uuid4", n>>

\* _make_request, lines 269-270 (async 381-382), run anew by every
\* func(*args, **kwargs) of the wrapper with the caller's arguments:
\*     if request_id is None: request_id = self._generate_request_id()
\* the value then goes into the X-Request-ID header (192, 275)
RequestIdSent(request_id, n) ==
    IF request_id = NoRequestId THEN _generate_request_id(n) ELSE request_id

InitRetry ==
    /\ retry_reqid = NoRequestId
    /\ retry_ids = {}
    /\ retry_pc = "idle"
    /\ retry_mode = "sync"
    /\ retry_audio = FALSE
    /\ retry_max = 0
    /\ retry_attempt = 0
    /\ retry_last = NoError
    /\ retry_wait = 0
    /\ retry_calls = 0
    /\ retry_seen = {}
    /\ retry_final = NoError
    /\ retry_out = "none"
    /\ retry_raised = NoError
    /\ retry_resp = NoResponse

\* a logical request: the decorated _make_request is called, sync_wrapper
\* or async_wrapper starts with last_exception = None
RetryCall(mode, audio, max_attempts, request_id) ==
    /\ kind = "retry"
    /\ retry_pc = "idle"
    /\ retry_pc' = "loop"
    /\ retry_reqid' = request_id
    /\ UNCHANGED retry_ids
    /\ retry_mode' = mode
    /\ retry_audio' = audio
    /\ retry_max' = max_attempts
    /\ retry_attempt' = 0
    /\ retry_last' = NoError
    /\ UNCHANGED <<retry_wait, retry_calls, retry_seen, retry_final,
                   retry_out, retry_raised, retry_resp>>
    /\ UNCHANGED notRetry

\* one round of `for attempt in range(max_attempts)`: the wire answers r to
\* func(*args, **kwargs); the wrapper returns, sleeps or raises
RetryAttempt(r, j) ==
    /\ retry_pc = "loop"
    /\ retry_attempt < retry_max
    /\ retry_calls' = retry_calls + 1
    /\ retry_resp' = r
    /\ retry_ids' = retry_ids \cup {RequestIdSent(retry_reqid, retry_calls + 1)}
    /\ UNCHANGED retry_reqid
    /\ LET raw == _make_request(retry_mode, retry_audio, r)
           e == [raw EXCEPT !.id = retry_calls + 1]
           d == IF retry_mode = "sync"
                  THEN sync_wrapper_except(e, retry_attempt, retry_max, j)
                  ELSE async_wrapper_except(e, retry_attempt, retry_max, j)
       IN  IF raw = NoError
             THEN /\ retry_pc' = "done"
                  /\ retry_out' = "returned"
                  /\ retry_final' = NoError
                  /\ UNCHANGED <<retry_last, retry_wait, retry_seen,
                                 retry_raised>>
             ELSE /\ retry_final' = e
                  /\ retry_seen' = retry_seen \cup {WireClass(r)}
                  /\ retry_last' = IF d.noted THEN e ELSE retry_last
                  /\ IF d.retry
                       THEN /\ retry_pc' = "sleep"
                            /\ retry_wait' = d.wait
                            /\ UNCHANGED <<retry_out, retry_raised>>
                       ELSE /\ retry_pc' = "done"
                            /\ retry_out' = "raised"
                            /\ retry_raised' =
                                   IF d.throws = "none" THEN Reraised(e)
                                   ELSE Error(d.throws, 0, 0, {})
                            /\ UNCHANGED retry_wait
    /\ UNCHANGED <<retry_mode, retry_audio, retry_max, retry_attempt>>
    /\ UNCHANGED notRetry

\* time.sleep(wait_time) / await asyncio.sleep(wait_time) is over; continue
RetrySleep ==
    /\ retry_pc = "sleep"
    /\ retry_pc' = "loop"
    /\ retry_attempt' = retry_attempt + 1
    /\ UNCHANGED <<retry_mode, retry_audio, retry_max, retry_last,
                   retry_wait, retry_calls, retry_seen, retry_final,
                   retry_out, retry_raised, retry_resp, retry_reqid,
                   retry_ids>>
    /\ UNCHANGED notRetry

\* lines 107-108 and 142-143, after the loop:
\*     if last_exception: raise last_exception
\* and the wrapper returns None otherwise
RetryLoopEnds ==
    /\ retry_pc = "loop"
    /\ retry_attempt >= retry_max
    /\ retry_pc' = "done"
    /\ IF retry_last # NoError
         THEN /\ retry_out' = "raised"
              /\ retry_raised' = retry_last
         ELSE /\ retry_out' = "returned_none"
              /\ UNCHANGED retry_raised
    /\ UNCHANGED <<retry_mode, retry_audio, retry_max, retry_attempt,
                   retry_last, retry_wait, retry_calls, retry_seen,
                   retry_final, retry_resp, retry_reqid, retry_ids>>
    /\ UNCHANGED notRetry

RetryStep ==
    \/ \E mode \in {"sync", "async"}, audio \in BOOLEAN,
          max_attempts \in 0..MaxAttempts,
          request_id \in {NoRequestId, CallerRequestId} :
          RetryCall(mode, audio, max_attempts, request_id)
    \/ \E r \in WireResponses, j \in 0..JitterSteps : RetryAttempt(r, j)
    \/ RetrySleep
    \/ RetryLoopEnds

(***************************************************************************)
(* Blossom and its hybrid generators (_DualCaller)                         *)
(***************************************************************************)
\* the operations of HybridImageGenerator and HybridTextGenerator
HybridOps == {"image.generate", "image.generate_url", "image.save",
              "image.models", "text.generate", "text.chat", "text.models"}

\* the operations that take stream=
StreamOps == {"text.generate", "text.chat"}

\* what the service answers to the request of an operation
Values == {"v1", "v2"}

NoCall == [op |-> "none", stream |-> FALSE, ctx |-> 0, result |-> "none",
           shape |-> "none", value |-> "none", awaited |-> "none"]

\* _is_inside_event_loop: asyncio.get_running_loop() does not raise
_is_inside_event_loop(ctx) == get_running_loop(ctx) # 0

\* _DualCaller._pick
_pick(ctx) == IF _is_inside_event_loop(ctx) THEN "async" ELSE "sync"

\* what the method of the picked generator returns when called
\* (generators.py): the sync generators return the value, or the iterator
\* of _stream_sse_chunked with stream=True; of the async generators every
\* method is a coroutine function, but AsyncTextGenerator.chat, an async
\* generator function whatever stream is, and AsyncTextGenerator.generate,
\* a plain function that returns the async generator of _generate_stream
\* with stream=True and the coroutine of _generate_text without
MethodResult(target, op, stream) ==
    IF target = "sync"
      THEN IF op \in StreamOps /\ stream THEN "iterator" ELSE "value"
    ELSE IF op = "text.chat" THEN "async_generator"
    ELSE IF op = "text.generate" /\ stream THEN "async_generator"
    ELSE "coroutine"

\* an _ensure_sync without the check for a running loop
_ensure_sync_unchecked(ctx) == "value"

\* _ensure_sync: "RuntimeError" inside a running loop, else asyncio.run
\* drives the coroutine to its value
_ensure_sync(ctx) ==
    IF _is_inside_event_loop(ctx) THEN "RuntimeError" ELSE "value"

\* a dispatcher that drains a lazy result: list(result) for an iterator
DualCallShape_forcing(ctx, op, stream) ==
    LET result == MethodResult(_pick(ctx), op, stream)
    IN  IF result \in {"generator", "iterator"} THEN "value"
        ELSE IF result = "coroutine"
          THEN IF _is_inside_event_loop(ctx) THEN "coroutine"
               ELSE _ensure_sync(ctx)
        ELSE result

\* _DualCaller.__call__, lines 66-80: the shape of what it returns
DualCallShape(ctx, op, stream) ==
    LET result == MethodResult(_pick(ctx), op, stream)
    IN  IF result \in {"generator", "iterator"} THEN result
        ELSE IF result = "coroutine"
          THEN IF _is_inside_event_loop(ctx) THEN "coroutine"
               ELSE _ensure_sync(ctx)
        ELSE result

InitDisp ==
    /\ disp_ctx = 0
    /\ disp_client = "none"
    /\ disp_where = 0
    /\ disp_call = NoCall

\* the thread starts running loop l (asyncio.run, run_until_complete)
DispEnterLoop(l) ==
    /\ kind = "dispatch"
    /\ disp_ctx = 0
    /\ disp_ctx' = l
    /\ UNCHANGED <<disp_client, disp_where, disp_call>>
    /\ UNCHANGED notDisp

\* the loop of the thread is over; what was returned in it and not awaited
\* can no longer be awaited there
DispLeaveLoop ==
    /\ disp_ctx # 0
    /\ disp_ctx' = 0
    /\ UNCHANGED <<disp_client, disp_where, disp_call>>
    /\ UNCHANGED notDisp

\* Blossom.__init__, lines 122-145: builds ImageGenerator,
\* AsyncImageGenerator, TextGenerator, AsyncTextGenerator; the async ones
\* call AsyncGenerator.__init__, line 366, AsyncSessionManager(), whose
\* __new__ calls asyncio.get_running_loop(), RuntimeError without a loop
BlossomInit ==
    /\ kind = "dispatch"
    /\ disp_client = "none"
    /\ disp_where' = disp_ctx
    /\ disp_client' = IF get_running_loop(disp_ctx) = 0 THEN "raised"
                      ELSE "constructed"
    /\ UNCHANGED <<disp_ctx, disp_call>>
    /\ UNCHANGED notDisp

\* client.image.<op>(...) / client.text.<op>(...): _DualCaller.__call__;
\* v is what the service answers
DualCall(op, stream, v) ==
    /\ disp_client = "constructed"
    /\ stream => op \in StreamOps
    /\ disp_call' = [op |-> op, stream |-> stream, ctx |-> disp_ctx,
                     result |-> MethodResult(_pick(disp_ctx), op, stream),
                     shape |-> DualCallShape(disp_ctx, op, stream),
                     value |-> v, awaited |-> "none"]
    /\ UNCHANGED <<disp_ctx, disp_client, disp_where>>
    /\ UNCHANGED notDisp

\* _ensure_sync(coro) called by the user of the client with a coroutine of
\* one of its async generators, which would resolve to v
DispEnsureSync(v) ==
    /\ disp_client = "constructed"
    /\ disp_call' = [op |-> "_ensure_sync", stream |-> FALSE,
                     ctx |-> disp_ctx, result |-> "coroutine",
                     shape |-> _ensure_sync(disp_ctx),
                     value |-> v, awaited |-> "none"]
    /\ UNCHANGED <<disp_ctx, disp_client, disp_where>>
    /\ UNCHANGED notDisp

\* `await` of what the latest call returned, in the loop of the call: a
\* coroutine resolves to the value, anything else is a TypeError
DispAwait ==
    /\ disp_call # NoCall
    /\ disp_call.shape # "RuntimeError"
    /\ disp_call.awaited = "none"
    /\ disp_ctx # 0
    /\ disp_ctx = disp_call.ctx
    /\ disp_call' = [disp_call EXCEPT !.awaited =
                        IF disp_call.shape = "coroutine" THEN "value"
                        ELSE "TypeError"]
    /\ UNCHANGED <<disp_ctx, disp_client, disp_where>>
    /\ UNCHANGED notDisp

DispStep ==
    \/ \E l \in Loops : DispEnterLoop(l)
    \/ DispLeaveLoop
    \/ BlossomInit
    \/ \E op \in HybridOps, stream \in BOOLEAN, v \in Values :
          DualCall(op, stream, v)
    \/ \E v \in Values : DispEnsureSync(v)
    \/ DispAwait

(***************************************************************************)
(* _calculate_wait_time as a function of its arguments                     *)
(***************************************************************************)
\* the caps the wrappers pass: the default and MAX_CHUNK_ENCODING_BACKOFF
BackoffCaps == {MAX_EXPONENTIAL_BACKOFF, MAX_CHUNK_ENCODING_BACKOFF}

\* the arguments of the call and the jitter it will draw; a single call in
\* the runs of the other subsystems
InitBackoff ==
    /\ backoff_pc = "idle"
    /\ backoff_wait = 0
    /\ IF kind = "backoff"
         THEN /\ backoff_attempt \in 0..MaxBackoffAttempt
              /\ backoff_cap \in BackoffCaps
              /\ backoff_jitter \in 0..JitterSteps
         ELSE /\ backoff_attempt = 0
              /\ backoff_cap = MAX_EXPONENTIAL_BACKOFF
              /\ backoff_jitter = 0

\* return min(2 ** attempt + random.uniform(0, 1), max_backoff)
CalculateWaitTime ==
    /\ kind = "backoff"
    /\ backoff_pc = "idle"
    /\ backoff_pc' = "done"
    /\ backoff_wait' = _calculate_wait_time(backoff_attempt, backoff_cap,
                                            backoff_jitter)
    /\ UNCHANGED <<backoff_attempt, backoff_cap, backoff_jitter>>
    /\ UNCHANGED notBackoff

BackoffStep == CalculateWaitTime

(***************************************************************************)
(* image.generate and image.generate_url: validation, URL, headers         *)
(***************************************************************************)
\* strings are sequences of characters
RECURSIVE ConcatRange(_, _, _)
ConcatRange(ss, lo, hi) ==
    IF lo > hi THEN <<>>
    ELSE IF lo = hi THEN ss[lo]
    ELSE ConcatRange(ss, lo, (lo + hi) \div 2)
             \o ConcatRange(ss, (lo + hi) \div 2 + 1, hi)

\* "".join(ss)
Concat(ss) == ConcatRange(ss, 1, Len(ss))

\* pat in s
Contains(s, pat) ==
    \E i \in 1..(Len(s) - Len(pat) + 1) : SubSeq(s, i, i + Len(pat) - 1) = pat

\* s.lower(), for the capitals that occur
UpperToLower == [c \in {"B", "D", "F"} |->
                    IF c = "B" THEN "b" ELSE IF c = "D" THEN "d" ELSE "f"]
lower(s) ==
    [i \in DOMAIN s |->
        IF s[i] \in DOMAIN UpperToLower THEN UpperToLower[s[i]] ELSE s[i]]

\* config.py
MAX_IMAGE_PROMPT_LENGTH == 200
IMAGE ==
    <<"h", "t", "t", "p", "s", ":", "/", "/", "e", "n", "t", "e", "r", ".",
      "p", "o", "l", "l", "i", "n", "a", "t", "i", "o", "n", "s", ".", "a",
      "i", "/", "a", "p", "i", "/", "g", "e", "n", "e", "r", "a", "t", "e",
      "/", "i", "m", "a", "g", "e">>
IMAGE_MODELS == IMAGE \o <<"/", "m", "o", "d", "e", "l", "s">>
IMAGE_MODEL == <<"f", "l", "u", "x">>
IMAGE_SEED == <<"4", "2">>
IMAGE_NEGATIVE_PROMPT ==
    <<"w", "o", "r", "s", "t", " ", "q", "u", "a", "l", "i", "t", "y", ",",
      " ", "b", "l", "u", "r", "r", "y">>

\* Python's None among the values of a parameter
None == <<"None">>

\* urllib.parse.quote: the characters it never encodes, and the percent
\* codes of the others that occur
Unreserved ==
    {"a", "b", "c", "d", "e", "f", "g", "h", "i", "j", "k", "l", "m", "n",
     "o", "p", "q", "r", "s", "t", "u", "v", "w", "x", "y", "z",
     "0", "1", "2", "3", "4", "5", "6", "7", "8", "9", "_", ".", "-", "~"}
PercentCode(c) ==
    IF c = "=" THEN <<"%", "3", "D">>
    ELSE IF c = "?" THEN <<"%", "3", "F">>
    ELSE IF c = "&" THEN <<"%", "2", "6">>
    ELSE IF c = "/" THEN <<"%", "2", "F">>
    ELSE IF c = ":" THEN <<"%", "3", "A">>
    ELSE IF c = "," THEN <<"%", "2", "C">>
    ELSE <<"%", "2", "0">>

\* quote(s, safe)
quote_from_bytes(s, safe) ==
    Concat([i \in DOMAIN s |->
              IF s[i] \in Unreserved \cup safe THEN <<s[i]>>
              ELSE PercentCode(s[i])])

\* quote(s): safe = "/"
quote(s) == quote_from_bytes(s, {"/"})

\* quote_plus(s): a space becomes "+", nothing else is safe
quote_plus(s) ==
    Concat([i \in DOMAIN s |->
              IF s[i] = " " THEN <<"+">>
              ELSE quote_from_bytes(<<s[i]>>, {})])

\* urlencode(query): name=value pairs joined by "&"
urlencode(query) ==
    Concat([i \in DOMAIN query |->
              (IF i = 1 THEN <<>> ELSE <<"&">>)
                  \o quote_plus(query[i][1]) \o <<"=">>
                  \o quote_plus(query[i][2])])

\* BaseGenerator._encode_prompt
_encode_prompt(prompt) == quote(prompt)

\* the arguments of generate / generate_url that end up in the query, in
\* the order of the fields of ImageParamsV2: what asdict(self).items() gives
asdict(params) ==
    <<<<<<"m", "o", "d", "e", "l">>, params.model>>,
      <<<<"s", "e", "e", "d">>, params.seed>>,
      <<<<"n", "e", "g", "a", "t", "i", "v", "e", "_", "p", "r", "o", "m", "p", "t">>, params.negative_prompt>>,
      <<<<"i", "m", "a", "g", "e">>, params.image>>>>

\* ImageParamsV2._is_default_value
_is_default_value(key, value) ==
    \/ key = <<"m", "o", "d", "e", "l">> /\ value = IMAGE_MODEL
    \/ key = <<"s", "e", "e", "d">> /\ value = IMAGE_SEED
    \/ key = <<"n", "e", "g", "a", "t", "i", "v", "e", "_", "p", "r", "o", "m", "p", "t">> /\ value = IMAGE_NEGATIVE_PROMPT

KeepsParam(kv) == kv[2] # None /\ ~_is_default_value(kv[1], kv[2])

\* ImageParamsV2.to_dict(): None and default values are left out
to_dict(params) == SelectSeq(asdict(params), KeepsParam)

\* a generator that also sends its token as a query parameter
RequestParams_with_token(token, params) ==
    to_dict(params) \o
        (IF token = <<>> THEN <<>> ELSE <<<<<<"t", "o", "k", "e", "n">>, token>>>>)

\* generators.py 115, 268 and 165, 309: the query parameters a generator
\* holding token passes on: params.to_dict()
RequestParams(token, params) == to_dict(params)

\* the URL requests / aiohttp put on the wire for url and params
PreparedUrl(url, query) ==
    IF query = <<>> THEN url ELSE url \o <<"?">> \o urlencode(query)

\* BaseGenerator._get_auth_headers: the Authorization header, <<>> without
_get_auth_headers(token) ==
    IF token # <<>> THEN <<"B", "e", "a", "r", "e", "r", " ">> \o token ELSE <<>>

\* what the caller can pass
NoToken == <<>>
Tokens == {NoToken, <<"s", "1">>, <<"s", "2">>}
PromptHeads ==
    {<<>>, <<"k", "e", "y", "=">>, <<"t", "o", "k", "e", "n", "=", "s", "1">>,
     <<"a", "/", "b", " ", "c", "?">>}
PadLengths == {0, 192, 193, 300}
Pad(n) == [i \in 1..n |-> "x"]
Prompts == {h \o Pad(n) : h \in PromptHeads, n \in PadLengths}
ImageParams ==
    [model : {IMAGE_MODEL, <<"t", "u", "r", "b", "o">>},
     seed : {IMAGE_SEED, <<"7">>},
     negative_prompt : {IMAGE_NEGATIVE_PROMPT, <<"k", "e", "y", "=", "s", "1">>},
     image : {None, <<"u", "?", "t", "o", "k", "e", "n", "=", "1">>}]

\* an error of the library: its class and its error_type
LibError(class, error_type) == [class |-> class, error_type |-> error_type]
NoLibError == LibError("none", "none")

\* ParameterValidator.validate_prompt_length: the error it raises
validate_prompt_length(prompt, max_length) ==
    IF Len(prompt) > max_length
      THEN LibError("BlossomError", "INVALID_PARAMETER")
      ELSE NoLibError

\* ImageGenerator._validate_prompt
_validate_prompt(prompt) ==
    validate_prompt_length(prompt, MAX_IMAGE_PROMPT_LENGTH)

\* what one call did: the error raised, the URL returned or requested, the
\* Authorization header sent with it, the URL of the model list fetched by
\* _validate_model when the model cache was not valid, and the number of
\* calls of _make_request
Outcome(result, error, url, auth, fetched, calls) ==
    [result |-> result, error |-> error, url |-> url, auth |-> auth,
     fetched |-> fetched, calls |-> calls]
NoOutcome == Outcome("none", NoLibError, <<>>, <<>>, <<>>, 0)

\* ModelAwareGenerator._validate_model -> Model.from_string ->
\* _ensure_initialized -> _fetch_models(endpoint): session.get(endpoint)
\* without token when the cache is not valid
ModelFetch(cacheValid) == IF cacheValid THEN <<>> ELSE IMAGE_MODELS

\* ImageGenerator.generate / AsyncImageGenerator.generate on a client
\* holding token
generate(token, prompt, params, cacheValid) ==
    IF _validate_prompt(prompt) # NoLibError
      THEN Outcome("raised", _validate_prompt(prompt), <<>>, <<>>, <<>>, 0)
      ELSE Outcome("requested", NoLibError,
                   PreparedUrl(IMAGE \o <<"/">> \o _encode_prompt(prompt),
                               RequestParams(token, params)),
                   _get_auth_headers(token),
                   ModelFetch(cacheValid), 1)

\* ImageGenerator.generate_url / AsyncImageGenerator.generate_url
generate_url(token, prompt, params, cacheValid) ==
    IF _validate_prompt(prompt) # NoLibError
      THEN Outcome("raised", _validate_prompt(prompt), <<>>, <<>>, <<>>, 0)
      ELSE Outcome("url", NoLibError,
                   IMAGE \o <<"/">> \o _encode_prompt(prompt) \o <<"?">>
                       \o urlencode(RequestParams(token, params)),
                   <<>>, ModelFetch(cacheValid), 0)

InitReq ==
    /\ req_pc = "idle"
    /\ req_op = "none"
    /\ req_mode = "sync"
    /\ req_prompt = <<>>
    /\ req_params = [model |-> IMAGE_MODEL, seed |-> IMAGE_SEED,
                     negative_prompt |-> IMAGE_NEGATIVE_PROMPT,
                     image |-> None]
    /\ req_out = [t \in Tokens |-> NoOutcome]

\* client.image.generate(prompt, ...) on each of the clients
ImageGenerate(mode, prompt, params, cacheValid) ==
    /\ kind = "request"
    /\ req_pc = "idle"
    /\ req_pc' = "done"
    /\ req_op' = "generate"
    /\ req_mode' = mode
    /\ req_prompt' = prompt
    /\ req_params' = params
    /\ req_out' = [t \in Tokens |-> generate(t, prompt, params, cacheValid)]
    /\ UNCHANGED notReq

\* client.image.generate_url(prompt, ...) on each of the clients
ImageGenerateUrl(mode, prompt, params, cacheValid) ==
    /\ kind = "request"
    /\ req_pc = "idle"
    /\ req_pc' = "done"
    /\ req_op' = "generate_url"
    /\ req_mode' = mode
    /\ req_prompt' = prompt
    /\ req_params' = params
    /\ req_out' = [t \in Tokens |->
                      generate_url(t, prompt, params, cacheValid)]
    /\ UNCHANGED notReq

ReqStep ==
    \E mode \in {"sync", "async"}, prompt \in Prompts,
       params \in ImageParams, cacheValid \in BOOLEAN :
        \/ ImageGenerate(mode, prompt, params, cacheValid)
        \/ ImageGenerateUrl(mode, prompt, params, cacheValid)

(***************************************************************************)
(* Streaming: _make_request(stream=True), _stream_with_timeout, SSEParser, *)
(* stream_sse / astream_sse and the _stream_response of generators_v2      *)
(***************************************************************************)
\* a payload after the marker "data: ": what json.loads makes of it.
\* t is "sentinel" for the text [DONE], "invalid" for text that is no JSON,
\* "null", "number" (any JSON value that is neither null nor an object) or
\* "object"; for an object, done is the value of its key "done", choices
\* is "absent", "null", "empty" ([]), "scalars" ([5]) or "records"; for
\* records, delta of the first one is "absent", "null" or "record", and
\* content of that delta is Absent, None or a string
Absent == <<"absent">>

Json(t, done, choices, delta, content) ==
    [t |-> t, done |-> done, choices |-> choices, delta |-> delta,
     content |-> content]

\* Python's None, which is also json.loads("null")
PyNone == Json("null", FALSE, "absent", "absent", Absent)

Sentinel == Json("sentinel", FALSE, "absent", "absent", Absent)

\* {"done": True}, what parse_line returns for the sentinel
DoneDict == Json("object", TRUE, "absent", "absent", Absent)

\* {"choices": [{"delta": {"content": content}}]}
Delta(content) == Json("object", FALSE, "records", "record", content)

Payloads ==
    {Sentinel, PyNone, DoneDict,
     Json("invalid", FALSE, "absent", "absent", Absent),
     Json("number", FALSE, "absent", "absent", Absent),
     Json("object", FALSE, "absent", "absent", Absent),
     Json("object", FALSE, "null", "absent", Absent),
     Json("object", FALSE, "empty", "absent", Absent),
     Json("object", FALSE, "records", "null", Absent),
     Delta(Absent), Delta(<<>>), Delta(<<"a">>), Delta(<<"b">>)}

\* a line of the source: leading whitespace or not, then nothing more
\* ("blank"), the marker "data: " and a payload ("data"), or other text
\* ("none", such as ": keep-alive" or "data:{...}" without the space)
Line(indent, marker, payload) ==
    [indent |-> indent, marker |-> marker, payload |-> payload]

Lines ==
    {Line(FALSE, "blank", PyNone), Line(FALSE, "none", PyNone),
     Line(TRUE, "data", Delta(<<"a">>))}
    \cup {Line(FALSE, "data", p) : p \in Payloads}

\* str.strip() on a line
strip(line) == [line EXCEPT !.indent = FALSE]

\* a parse_line that takes the sentinel for a frame to ignore
parse_line_sentinel_ignored(line) ==
    IF line.marker = "blank" THEN PyNone
    ELSE IF line.marker = "data" /\ ~line.indent
      THEN IF line.payload.t \in {"sentinel", "invalid"} THEN PyNone
           ELSE line.payload
    ELSE PyNone

\* SSEParser.parse_line and _parse_sse_line of generators_v2:
\*     if not line or not line.strip(): return None
\*     if line.startswith("data: "):
\*         data_str = line[6:].strip()
\*         if data_str == "[DONE]": return {"done": True}
\*         try: return json.loads(data_str)
\*         except json.JSONDecodeError: return None
\*     return None
parse_line(line) ==
    IF line.marker = "blank" THEN PyNone
    ELSE IF line.marker = "data" /\ ~line.indent
      THEN IF line.payload.t = "sentinel" THEN DoneDict
           ELSE IF line.payload.t = "invalid" THEN PyNone
           ELSE line.payload
    ELSE PyNone

\* what a piece of code did: returned text, raised error, or, for one round
\* of the decoding loop, "skip" (continue), "emit" (yield text), "done"
\* (break)
Returns(text) == [act |-> "return", text |-> text, error |-> "none"]
Raises(error) == [act |-> "raise", text |-> None, error |-> error]
Skip == [act |-> "skip", text |-> None, error |-> "none"]
Emit(text) == [act |-> "emit", text |-> text, error |-> "none"]
Break == [act |-> "done", text |-> None, error |-> "none"]

\* SSEParser.extract_content:
\*     if not parsed or parsed.get("done"): return None
\*     if "choices" in parsed and len(parsed["choices"]) > 0:
\*         return parsed["choices"][0].get("delta", {}).get("content", "")
\*     return None
\* .get on a number, on a list or on None raises AttributeError, len(None)
\* raises TypeError
extract_content(parsed) ==
    IF parsed = PyNone THEN Returns(None)
    ELSE IF parsed.t # "object" THEN Raises("AttributeError")
    ELSE IF parsed.done THEN Returns(None)
    ELSE IF parsed.choices = "absent" THEN Returns(None)
    ELSE IF parsed.choices = "null" THEN Raises("TypeError")
    ELSE IF parsed.choices = "empty" THEN Returns(None)
    ELSE IF parsed.choices = "scalars" THEN Raises("AttributeError")
    ELSE IF parsed.delta = "null" THEN Raises("AttributeError")
    ELSE IF parsed.delta = "absent" \/ parsed.content = Absent
      THEN Returns(<<>>)
    ELSE Returns(parsed.content)

\* one round of the loop of stream_sse / astream_sse, after parse_line:
\*     if parsed is None: continue
\*     if parsed.get("done"): break
\*     content = self._sse_parser.extract_content(parsed)
\*     if content: yield content
\* the loops of the two _stream_response do the same with the extraction
\* written out
LoopBody(parsed) ==
    IF parsed = PyNone THEN Skip
    ELSE IF parsed.t # "object" THEN Raises("AttributeError")
    ELSE IF parsed.done THEN Break
    ELSE LET content == extract_content(parsed)
         IN  IF content.act = "raise" THEN content
             ELSE IF content.text \in {None, <<>>} THEN Skip
             ELSE Emit(content.text)

\* astream_sse and the async _stream_response strip the decoded line before
\* they parse it; stream_sse and the sync _stream_response parse it as it is
Strips(impl) == impl \in {"astream_sse", "v2_async"}

\* both _stream_response: except StreamError: raise / except Exception as e:
\* raise StreamError(...); stream_sse and astream_sse have no try
Wraps(impl) == impl \in {"v2_sync", "v2_async"}

\* SyncGenerator or AsyncGenerator
ModeOf(impl) == IF impl \in {"stream_sse", "v2_sync"} THEN "sync" ELSE "async"

\* what the consumer gets when error is raised inside the decoder
Surfaced(impl, error) == IF Wraps(impl) THEN "StreamError" ELSE error

\* one line through the decoder impl
DecodeLine(impl, line) ==
    LET r == LoopBody(parse_line(IF Strips(impl) THEN strip(line) ELSE line))
    IN  IF r.act = "raise" THEN Raises(Surfaced(impl, r.error)) ELSE r

\* whether leaving the decoder closes the response.  stream_sse and the
\* sync _stream_response read from _stream_with_timeout, whose finally
\* closes the response once that generator has started (directly when the
\* source ends or raises, at its finalisation otherwise); the finally of
\* the async _stream_response closes it; astream_sse reads response.content
\* and closes nothing
ClosesResponse(impl, started) ==
    IF impl = "astream_sse" THEN FALSE
    ELSE IF impl = "v2_async" THEN TRUE
    ELSE started

\* the answers of the wire to the request of a stream
StreamWire == {r \in WireResponses : r.header = {} /\ r.body = {}}

\* async _make_request, stream branch, lines 399-408: for a status >= 400
\*     data = await response.read()
\*     should_ignore = self._handle_http_error(response.status, data)
\*     if not should_ignore:
\*         await response.close()
\*         raise aiohttp.ClientResponseError(...)
\* closes the response only when _handle_http_error returns False; the sync
\* _make_request, lines 283-287, raises without closing
ClosedBeforeRaise(mode, r) ==
    /\ mode = "async"
    /\ _handle_http_error(r.status, r.body, FALSE).type = "pass"

InitSse ==
    /\ sse_pc = "idle"
    /\ sse_impl = "stream_sse"
    /\ sse_attempt = 0
    /\ sse_unclosed = 0
    /\ sse_read = <<>>
    /\ sse_out = <<>>
    /\ sse_cause = "none"
    /\ sse_error = "none"

\* a caller asks for a streamed completion
SseCall(impl) ==
    /\ kind = "stream"
    /\ sse_pc = "idle"
    /\ sse_pc' = "request"
    /\ sse_impl' = impl
    /\ UNCHANGED <<sse_attempt, sse_unclosed, sse_read, sse_out, sse_cause,
                   sse_error>>
    /\ UNCHANGED notSse

\* one attempt of _make_request(..., stream=True) under with_retry: the
\* wire answers r; the response is returned open, or the error is raised
\* and the wrapper goes round again or gives up
SseAttempt(r) ==
    /\ sse_pc = "request"
    /\ LET mode == ModeOf(sse_impl)
           e == _make_request(mode, FALSE, r)
           d == IF mode = "sync"
                  THEN sync_wrapper_except(e, sse_attempt, MAX_RETRIES, 0)
                  ELSE async_wrapper_except(e, sse_attempt, MAX_RETRIES, 0)
           opened == r.fail = "none"
           closed == e # NoError /\ ClosedBeforeRaise(mode, r)
       IN  /\ sse_unclosed' = IF opened /\ ~closed THEN sse_unclosed + 1
                              ELSE sse_unclosed
           /\ IF e = NoError
                THEN /\ sse_pc' = "streaming"
                     /\ sse_attempt' = 0
                     /\ UNCHANGED <<sse_cause, sse_error>>
              ELSE IF d.retry
                THEN /\ sse_attempt' = sse_attempt + 1
                     /\ UNCHANGED <<sse_pc, sse_cause, sse_error>>
              ELSE /\ sse_pc' = "raised"
                   /\ sse_cause' = "status"
                   /\ sse_error' = IF sse_impl = "v2_async"
                                     THEN "StreamError" ELSE e.type
                   /\ UNCHANGED sse_attempt
    /\ UNCHANGED <<sse_impl, sse_read, sse_out>>
    /\ UNCHANGED notSse

\* the decoder leaves its loop: how, and what becomes of the response
SseLeave(pc, cause, error) ==
    /\ sse_pc' = pc
    /\ sse_cause' = cause
    /\ sse_error' = error
    /\ sse_unclosed' = IF ClosesResponse(sse_impl, TRUE)
                         THEN sse_unclosed - 1 ELSE sse_unclosed

\* the source delivers line, which goes through one round of the loop
SsePull(line) ==
    /\ sse_pc = "streaming"
    /\ Len(sse_read) < MaxLines
    /\ sse_read' = Append(sse_read, line)
    /\ LET r == DecodeLine(sse_impl, line)
       IN  IF r.act = "emit"
             THEN /\ sse_out' = Append(sse_out, r.text)
                  /\ UNCHANGED <<sse_pc, sse_cause, sse_error, sse_unclosed>>
           ELSE IF r.act = "skip"
             THEN UNCHANGED <<sse_pc, sse_cause, sse_error, sse_unclosed,
                              sse_out>>
           ELSE IF r.act = "done"
             THEN SseLeave("done", "none", "none") /\ UNCHANGED sse_out
           ELSE SseLeave("raised", "decode", r.error) /\ UNCHANGED sse_out
    /\ UNCHANGED <<sse_impl, sse_attempt>>
    /\ UNCHANGED notSse

\* the source is exhausted: the for loop ends
SseEnd ==
    /\ sse_pc = "streaming"
    /\ SseLeave("exhausted", "none", "none")
    /\ UNCHANGED <<sse_impl, sse_attempt, sse_read, sse_out>>
    /\ UNCHANGED notSse

\* the source fails with an I/O error of the transport
SseSourceFails ==
    /\ sse_pc = "streaming"
    /\ SseLeave("raised", "source",
                Surfaced(sse_impl,
                         IF ModeOf(sse_impl) = "sync"
                           THEN "ChunkedEncodingError"
                           ELSE "ClientPayloadError"))
    /\ UNCHANGED <<sse_impl, sse_attempt, sse_read, sse_out>>
    /\ UNCHANGED notSse

\* a line arrives later than chunk_timeout after the one before:
\* _stream_with_timeout, lines 301-306, and the async _stream_response,
\* lines 501-506, raise StreamError; astream_sse has no such check
SseStall ==
    /\ sse_pc = "streaming"
    /\ sse_impl # "astream_sse"
    /\ SseLeave("raised", "timeout", "StreamError")
    /\ UNCHANGED <<sse_impl, sse_attempt, sse_read, sse_out>>
    /\ UNCHANGED notSse

\* the consumer drops the iterator, before its first next() or at a yield.
\* The async _stream_response makes its request only at the first next(),
\* so a response of it is never dropped unstarted
SseAbandon ==
    /\ sse_pc = "streaming"
    /\ IF sse_read = <<>> THEN sse_impl # "v2_async"
       ELSE DecodeLine(sse_impl, sse_read[Len(sse_read)]).act = "emit"
    /\ sse_pc' = "abandoned"
    /\ sse_unclosed' = IF ClosesResponse(sse_impl, sse_read # <<>>)
                         THEN sse_unclosed - 1 ELSE sse_unclosed
    /\ UNCHANGED <<sse_impl, sse_attempt, sse_read, sse_out, sse_cause,
                   sse_error>>
    /\ UNCHANGED notSse

SseStep ==
    \/ \E impl \in {"stream_sse", "astream_sse", "v2_sync", "v2_async"} :
           SseCall(impl)
    \/ \E r \in StreamWire : SseAttempt(r)
    \/ \E line \in Lines : SsePull(line)
    \/ SseEnd
    \/ SseSourceFails
    \/ SseStall
    \/ SseAbandon

(***************************************************************************)
(* Clients opened, used and closed in sequence on the singleton managers   *)
(***************************************************************************)
\* SyncSessionManager() / AsyncSessionManager(), __new__ and __init__: the
\* manager of the thread / loop is made on first use; later calls return
\* the same object and __init__ returns at `if hasattr(self,
\* "_initialized")`, so _closed keeps its value
ManagerClosedAfterNew(instance, closed) == IF instance THEN closed ELSE FALSE

\* a get_session for which no cached session is good enough
CachedAlive_never(mode, s) == FALSE

\* get_session: whether the cached session is returned.  Sync, line 71:
\* self._session is not None; async, line 141: session and
\* self._is_alive(session)
CachedAlive(mode, s) ==
    IF mode = "sync" THEN s # 0 ELSE s # 0 /\ s \in life_open

InitLife ==
    /\ life_mode = "none"
    /\ life_instance = FALSE
    /\ life_closed = FALSE
    /\ life_session = 0
    /\ life_open = {}
    /\ life_created = 0
    /\ life_client = [c \in Clients |-> "none"]
    /\ life_born = [c \in Clients |-> 0]
    /\ life_cycles = 0
    /\ life_last = [c \in Clients |-> "none"]

\* the thread runs sync code, or a loop is started on it
LifeStart(mode) ==
    /\ kind = "lifecycle"
    /\ life_mode = "none"
    /\ life_mode' = mode
    /\ UNCHANGED <<life_instance, life_closed, life_session, life_open,
                   life_created, life_client, life_born, life_cycles,
                   life_last>>
    /\ UNCHANGED notLife

\* `with TextGenerator(...) as gen:` (SyncGenerator.__init__, line 253) or
\* `async with Blossom(...) as client:` (AsyncGenerator.__init__, line 366):
\* the constructor asks for the session manager
LifeConstruct(c) ==
    /\ life_mode # "none"
    /\ life_client[c] = "none"
    /\ life_cycles < MaxCycles
    /\ life_client' = [life_client EXCEPT ![c] = "open"]
    /\ life_born' = [life_born EXCEPT ![c] = life_cycles]
    /\ life_instance' = TRUE
    /\ life_closed' = ManagerClosedAfterNew(life_instance, life_closed)
    /\ life_last' = [life_last EXCEPT ![c] = "none"]
    /\ UNCHANGED <<life_mode, life_session, life_open, life_created,
                   life_cycles>>
    /\ UNCHANGED notLife

\* a request of the open client c: _make_request asks get_session() for
\* the session; no other call is in progress on the manager
LifeRequest(c) ==
    /\ life_client[c] = "open"
    /\ IF GetSessionRefuses(life_closed)
         THEN /\ life_last' = [life_last EXCEPT ![c] = "RuntimeError"]
              /\ UNCHANGED <<life_session, life_open, life_created>>
       ELSE IF CachedAlive(life_mode, life_session)
         THEN /\ life_last' = [life_last EXCEPT ![c] = "ok"]
              /\ UNCHANGED <<life_session, life_open, life_created>>
       ELSE /\ life_created < MaxLifeSessions
            /\ life_created' = life_created + 1
            /\ life_session' = life_created + 1
            /\ life_open' = life_open \cup {life_created + 1}
            /\ life_last' = [life_last EXCEPT ![c] = "ok"]
    /\ UNCHANGED <<life_mode, life_instance, life_closed, life_client,
                   life_born, life_cycles>>
    /\ UNCHANGED notLife

\* the with block of client c is left: SyncGenerator.__exit__ -> close(), or
\* Blossom.__aexit__ -> _close_async -> close() of each async generator,
\* both on the one manager (the second finds _closed and returns).
\* SyncSessionManager.close closes the session and forgets it,
\* AsyncSessionManager.close closes the cached sessions that are not closed
\* and keeps them in _sessions; both set _closed
LifeExit(c) ==
    /\ life_client[c] = "open"
    /\ life_client' = [life_client EXCEPT ![c] = "none"]
    /\ life_cycles' = life_cycles + 1
    /\ IF life_closed
         THEN UNCHANGED <<life_closed, life_session, life_open>>
         ELSE /\ life_closed' = TRUE
              /\ life_open' = life_open \ {life_session}
              /\ life_session' = IF life_mode = "sync" THEN 0
                                 ELSE life_session
    /\ UNCHANGED <<life_mode, life_instance, life_created, life_born,
                   life_last>>
    /\ UNCHANGED notLife

\* the environment: the connector of the cached aiohttp session is closed,
\* which makes session.closed true
LifeSessionDies ==
    /\ life_mode = "async"
    /\ life_session \in life_open
    /\ life_open' = life_open \ {life_session}
    /\ UNCHANGED <<life_mode, life_instance, life_closed, life_session,
                   life_created, life_client, life_born, life_cycles,
                   life_last>>
    /\ UNCHANGED notLife

LifeStep ==
    \/ \E mode \in {"sync", "async"} : LifeStart(mode)
    \/ \E c \in Clients : LifeConstruct(c)
    \/ \E c \in Clients : LifeRequest(c)
    \/ \E c \in Clients : LifeExit(c)
    \/ LifeSessionDies

(***************************************************************************)
(* DynamicModel._ensure_initialized / _aensure_initialized on _ModelCache   *)
(***************************************************************************)
InitCache ==
    /\ cache_valid = FALSE
    /\ cache_lock = 0
    /\ cache_pc = [c \in CacheCallers |-> "idle"]
    /\ cache_calls = [c \in CacheCallers |-> 0]
    /\ cache_ret = [c \in CacheCallers |-> "none"]
    /\ cache_waited = {}
    /\ cache_expiries = 0

\* the thread of the event loop is inside a blocking lock.acquire(): no
\* coroutine of the loop runs, none is resumed
LoopBlocked == \E c \in Coros : cache_pc[c] = "blocked"

\* a caller that may take its next step: the worker thread always, a
\* coroutine when the loop's thread is free to run it
MayRun(c) == c = Worker \/ ~LoopBlocked

\* `with cache.lock:` acquires at once only when nobody holds the lock
LockFree(c) == cache_lock = 0

\* the fetch and the rest of the function, run to the end in one go:
\* lines 172-187 (sync 153-158): the cache is marked initialized whether or
\* not models were fetched; True when some were, else False
CacheFinish(c, got) ==
    /\ cache_valid' = TRUE
    /\ cache_lock' = 0
    /\ cache_pc' = [cache_pc EXCEPT ![c] = "idle"]
    /\ cache_ret' = [cache_ret EXCEPT ![c] = IF got THEN "True" ELSE "False"]

\* the body of the with block, the lock held by c: lines 166-187.  The
\* worker's fetch is a blocking requests call; a coroutine's fetch awaits
\* the HTTP answer (suspends = TRUE) unless get_session() raises at once,
\* which _afetch_models turns into [] without ever yielding to the loop
CacheUnderLock(c, suspends, got) ==
    IF cache_valid
      THEN /\ cache_pc' = [cache_pc EXCEPT ![c] = "idle"]
           /\ cache_ret' = [cache_ret EXCEPT ![c] = "True"]
           /\ cache_lock' = 0
           /\ UNCHANGED cache_valid
    ELSE IF suspends
      THEN /\ cache_pc' = [cache_pc EXCEPT ![c] = "fetching"]
           /\ cache_lock' = c
           /\ UNCHANGED <<cache_valid, cache_ret>>
    ELSE CacheFinish(c, got)

\* a caller starts _ensure_initialized / _aensure_initialized (force=False):
\* lines 162-165 (sync 139-142); it runs until it returns, blocks in
\* acquire(), or suspends / waits in the fetch
CacheCall(c, suspends, got) ==
    /\ kind = "cache"
    /\ cache_pc[c] = "idle"
    /\ MayRun(c)
    /\ cache_calls[c] < MaxCacheCalls
    /\ cache_calls' = [cache_calls EXCEPT ![c] = @ + 1]
    /\ IF cache_valid
         THEN /\ cache_ret' = [cache_ret EXCEPT ![c] = "True"]
              /\ cache_waited' = cache_waited \ {c}
              /\ UNCHANGED <<cache_valid, cache_lock, cache_pc>>
       ELSE IF LockFree(c)
         THEN /\ CacheUnderLock(c, suspends \/ c = Worker, got)
              /\ cache_waited' = cache_waited \ {c}
       ELSE /\ cache_pc' = [cache_pc EXCEPT ![c] = "blocked"]
            /\ cache_ret' = [cache_ret EXCEPT ![c] = "none"]
            /\ cache_waited' = cache_waited \cup {c}
            /\ UNCHANGED <<cache_valid, cache_lock>>
    /\ UNCHANGED <<cache_expiries, notCache>>

\* the holder releases the lock and the blocked acquire() of c returns
CacheAcquire(c, suspends, got) ==
    /\ cache_pc[c] = "blocked"
    /\ LockFree(c)
    /\ CacheUnderLock(c, suspends \/ c = Worker, got)
    /\ UNCHANGED <<cache_calls, cache_waited, cache_expiries, notCache>>

\* the HTTP answer is there: the worker's blocking call returns, or the
\* loop resumes the coroutine, which needs the loop's thread
CacheFetched(c, got) ==
    /\ cache_pc[c] = "fetching"
    /\ MayRun(c)
    /\ CacheFinish(c, got)
    /\ UNCHANGED <<cache_calls, cache_waited, cache_expiries, notCache>>

\* time passes: the cached list is older than ttl (is_valid, line 48)
CacheExpires ==
    /\ cache_valid
    /\ cache_expiries < MaxExpiries
    /\ cache_expiries' = cache_expiries + 1
    /\ cache_valid' = FALSE
    /\ UNCHANGED <<cache_lock, cache_pc, cache_calls, cache_ret, cache_waited,
                   notCache>>

CacheStep ==
    \/ \E c \in CacheCallers, suspends, got \in BOOLEAN :
           CacheCall(c, suspends, got)
    \/ \E c \in CacheCallers, suspends, got \in BOOLEAN :
           CacheAcquire(c, suspends, got)
    \/ \E c \in CacheCallers, got \in BOOLEAN : CacheFetched(c, got)
    \/ CacheExpires

(***************************************************************************)
(* BaseAPI._make_request and AsyncBaseAPI._make_request                    *)
(***************************************************************************)
\* stop_after_attempt(3) of the tenacity decorator, line 25, and
\* max_retries = 3, line 128
max_retries == 3

\* the methods callers pass, in either case
ApiMethods == {"GET", "get", "POST", "post", "PUT", "DELETE"}

\* str.upper() on a method name
upper(method) ==
    CASE method = "get" -> "GET"
      [] method = "post" -> "POST"
      [] OTHER -> method

\* a dict is the set of its <<key, value>> pairs; d[key] = value
DictSet(d, key, value) == {kv \in d : kv[1] # key} \cup {<<key, value>>}

\* the dicts a caller passes as headers= and params= (none at all counts as
\* the empty dict, which the code puts in its place)
CallerHeaders == {{}, {<<"Accept", <<"j">>>>}}
CallerParams == {{}, {<<"seed", <<"7">>>>}}

\* f'Bearer {self.api_token}'
Bearer(token) == <<"B", "e", "a", "r", "e", "r", " ">> \o token

\* lines 35-43 and 136-140: where the token is put
\*     if self.api_token:
\*         if method.upper() == 'POST': headers['Authorization'] = 'Bearer ..'
\*         else:                        params['token'] = self.api_token
WithToken(method, token, headers, params) ==
    IF token = NoToken THEN [headers |-> headers, params |-> params]
    ELSE IF upper(method) = "POST"
      THEN [headers |-> DictSet(headers, "Authorization", Bearer(token)),
            params |-> params]
    ELSE [headers |-> headers, params |-> DictSet(params, "token", token)]

\* the headers and params an attempt starts from.  BaseAPI keeps them in
\* kwargs for every attempt; AsyncBaseAPI pops them from kwargs in its first
\* round (133-134), so later rounds of its loop start from empty dicts
AttemptKwargs(impl, kwargs, attempts) ==
    IF impl = "AsyncBaseAPI" /\ attempts > 0
      THEN [headers |-> {}, params |-> {}]
      ELSE kwargs

InitApi ==
    /\ api_pc = "idle"
    /\ api_impl = "BaseAPI"
    /\ api_method = "GET"
    /\ api_token = NoToken
    /\ api_kwargs = [headers |-> {}, params |-> {}]
    /\ api_attempts = 0
    /\ api_headers = {}
    /\ api_query = {}
    /\ api_out = "none"

\* client._make_request(method, url, headers=.., params=..) on a client
\* constructed with api_token=token
ApiCall(impl, method, token, headers, params) ==
    /\ kind = "baseapi"
    /\ api_pc = "idle"
    /\ api_pc' = "sending"
    /\ api_impl' = impl
    /\ api_method' = method
    /\ api_token' = token
    /\ api_kwargs' = [headers |-> headers, params |-> params]
    /\ UNCHANGED <<api_attempts, api_headers, api_query, api_out, notApi>>

\* one attempt: session.request(method, url, headers=.., params=..) and the
\* answer: "ok"; "502", retried while attempts remain (tenacity on the
\* re-raised HTTPError, lines 67-69; the loop, 175-180 and 194-199); or
\* "error", any other failure, which is raised
ApiAttempt(answer) ==
    /\ api_pc = "sending"
    /\ LET kw == AttemptKwargs(api_impl, api_kwargs, api_attempts)
           sent == WithToken(api_method, api_token, kw.headers, kw.params)
       IN  /\ api_headers' = sent.headers
           /\ api_query' = sent.params
           /\ api_kwargs' = IF api_impl = "BaseAPI" THEN sent ELSE api_kwargs
    /\ api_attempts' = api_attempts + 1
    /\ IF answer = "ok"
         THEN api_pc' = "done" /\ api_out' = "returned"
       ELSE IF answer = "502" /\ api_attempts + 1 < max_retries
         THEN api_pc' = "sending" /\ UNCHANGED api_out
       ELSE api_pc' = "done" /\ api_out' = "raised"
    /\ UNCHANGED <<api_impl, api_method, api_token, notApi>>

ApiStep ==
    \/ \E impl \in {"BaseAPI", "AsyncBaseAPI"}, method \in ApiMethods,
          token \in Tokens, headers \in CallerHeaders,
          params \in CallerParams :
          ApiCall(impl, method, token, headers, params)
    \/ \E answer \in {"ok", "502", "error"} : ApiAttempt(answer)

(***************************************************************************)
(* Specifications                                                          *)
(***************************************************************************)
vars ==
    <<kind, syncVars, asyncVars, retryVars, dispVars, backoffVars,
      reqVars, sseVars, lifeVars, cacheVars, apiVars>>

InitAll ==
    /\ InitSync /\ InitAsync /\ InitRetry /\ InitDisp /\ InitBackoff
    /\ InitReq /\ InitSse /\ InitLife
    /\ InitCache
    /\ InitApi

NextSync == \E t \in Threads : SyncStep(t)

NextAsync == AsyncStep

\* threads on one SyncSessionManager
InitSyncOnly == kind = "sync" /\ InitAll

SpecSync == InitSyncOnly /\ [][NextSync]_vars

\* tasks on the AsyncSessionManagers of the loops
InitAsyncOnly == kind = "async" /\ InitAll

SpecAsync == InitAsyncOnly /\ [][NextAsync]_vars

\* either session manager
InitSession == kind \in {"sync", "async"} /\ InitAll

NextSession == NextSync \/ NextAsync

SpecSession == InitSession /\ [][NextSession]_vars

\* one logical request through with_retry
InitRetryOnly == kind = "retry" /\ InitAll

NextRetry == RetryStep

SpecRetry == InitRetryOnly /\ [][NextRetry]_vars

\* a thread that makes a Blossom client and calls its hybrid operations
InitDispOnly == kind = "dispatch" /\ InitAll

NextDisp == DispStep

SpecDispatch == InitDispOnly /\ [][NextDisp]_vars

\* one call of _calculate_wait_time, for every attempt, cap and jitter
InitBackoffOnly == kind = "backoff" /\ InitAll

NextBackoff == BackoffStep

SpecBackoff == InitBackoffOnly /\ [][NextBackoff]_vars

\* one call of image.generate or image.generate_url
InitReqOnly == kind = "request" /\ InitAll

NextReq == ReqStep

SpecRequest == InitReqOnly /\ [][NextReq]_vars

\* one streamed request: the wire calls, then the decoder on the lines
InitSseOnly == kind = "stream" /\ InitAll

NextSse == SseStep

SpecStream == InitSseOnly /\ [][NextSse]_vars

\* clients opened, used and closed one after the other
InitLifeOnly == kind = "lifecycle" /\ InitAll

NextLife == LifeStep

SpecLifecycle == InitLifeOnly /\ [][NextLife]_vars

InitCacheOnly == kind = "cache" /\ InitAll

NextCache == CacheStep

\* two coroutines of one loop and a worker thread on the one model cache
SpecCache == InitCacheOnly /\ [][NextCache]_vars

InitApiOnly == kind = "baseapi" /\ InitAll

NextApi == ApiStep

\* one request of a BaseAPI or AsyncBaseAPI client
SpecBaseApi == InitApiOnly /\ [][NextApi]_vars

(***************************************************************************)
(* Session managers: properties                                            *)
(***************************************************************************)
\* the get_session() calls of the threads that have returned
SyncReturnedGets ==
    {t \in Threads : sync_op[t] = "get" /\ sync_out[t] = "returned"}

\* the close() calls of the threads that are over
SyncFinishedCloses ==
    {t \in Threads : sync_op[t] = "close" /\ sync_pc[t] = "idle"}

\* the async sessions constructed so far
AsyncConstructed == 1..async_created

\* C1: while no close() has been called on the SyncSessionManager, however
\* the get_session() calls of the threads interleave, at most one session is
\* constructed, and every call that has returned, returned that one session
\* (which then has been constructed exactly once).
C1_SyncSingleSession ==
    ~sync_closeStarted =>
        /\ sync_created <= 1
        /\ \A t \in SyncReturnedGets : sync_created = 1 /\ sync_val[t] = 1

\* C1 witness: one thread has its session while a second, which saw no
\* session on the unlocked check, is about to take the lock
C1_Witness ==
    /\ ~sync_closeStarted
    /\ \E a, b \in Threads :
          /\ a # b
          /\ a \in SyncReturnedGets /\ sync_val[a] = 1
          /\ sync_pc[b] = "g_lock"

\* C2: on one AsyncSessionManager with no close() called and no session lost,
\* at most one session is constructed per loop and every caller on the loop
\* was handed that session; and never are two usable sessions of the manager
\* bound to the same loop.
C2_AsyncSingleSession ==
    /\ (~async_closeStarted /\ \A s \in AsyncConstructed : ~sess_died[s]) =>
          \A l \in Loops :
             /\ Cardinality({s \in AsyncConstructed : sess_loop[s] = l}) <= 1
             /\ async_handed[l] \subseteq
                   {s \in AsyncConstructed : sess_loop[s] = l}
    /\ \A l \in Loops :
          Cardinality({s \in AsyncConstructed :
                          sess_loop[s] = l /\ SessionUsable(s)}) <= 1

\* C2 witness: two get_session() calls have returned and one session exists
C2_Witness ==
    /\ ~async_closeStarted
    /\ \A s \in AsyncConstructed : ~sess_died[s]
    /\ async_returns = 2
    /\ async_created = 1

\* C3: a get_session() call begun after a close() of its manager has
\* returned raises and returns no session (both managers).
C3_NoSessionAfterClose ==
    /\ \A t \in Threads :
          (sync_op[t] = "get" /\ sync_afterClose[t]) =>
              /\ sync_pc[t] \in {"g_closed", "idle"}
              /\ sync_out[t] \in {"none", "raised"}
              /\ sync_pc[t] = "idle" => sync_out[t] = "raised"
    /\ async_lateGets \subseteq {"raised"}

\* C3 witness, thread manager: a call begun after close() returned has raised
C3_WitnessSync ==
    \E t \in Threads :
        /\ sync_op[t] = "get" /\ sync_afterClose[t]
        /\ sync_pc[t] = "idle" /\ sync_out[t] = "raised"

\* C3 witness, event-loop manager: the same
C3_WitnessAsync == async_closeReturned > 0 /\ "raised" \in async_lateGets

\* C3 witness: the case of the manager the run exercises
C3_Witness ==
    \/ kind = "sync" /\ C3_WitnessSync
    \/ kind = "async" /\ C3_WitnessAsync

\* C4: close() calls, sequential or concurrent, never raise; no session has
\* its close() invoked twice by the manager; once a close() has returned the
\* manager is closed, and every session it had constructed before the first
\* close() call has been closed by it exactly once (unless the session had
\* died by itself before).
C4_CloseIdempotent ==
    /\ \A s \in SyncSessionIds : sync_closeCalls[s] <= 1
    /\ \A t \in SyncFinishedCloses : sync_out[t] = "returned" /\ sync_closed
    /\ sync_closeReturned =>
          /\ sync_closed
          /\ \A s \in sync_bornEarly : sync_closeCalls[s] = 1
    /\ \A s \in SessionIds : async_closeCalls[s] <= 1
    /\ async_closeReturned > 0 =>
          /\ async_closed
          /\ \A s \in async_bornEarly :
                /\ sess_died[s] \/ async_closeCalls[s] = 1
                /\ ~SessionUsable(s)

\* C4 witness, thread manager: two close() calls are over, one session closed
C4_WitnessSync ==
    /\ Cardinality(SyncFinishedCloses) >= 2
    /\ sync_bornEarly # {}
    /\ \A s \in sync_bornEarly : sync_closeCalls[s] = 1

\* C4 witness, event-loop manager: the same
C4_WitnessAsync ==
    /\ async_closeReturned >= 2
    /\ \E s \in async_bornEarly : ~sess_died[s] /\ async_closeCalls[s] = 1

\* C4 witness: the case of the manager the run exercises
C4_Witness ==
    \/ kind = "sync" /\ C4_WitnessSync
    \/ kind = "async" /\ C4_WitnessAsync

\* C5: get_session() never returns a session that is closed or whose
\* connector is closed, and a session it has returned stays the loop's cached
\* session for as long as it is usable: only a dead one is replaced.
C5_NoDeadSession ==
    /\ async_handedDead = {}
    /\ \A l \in Loops : \A s \in async_handed[l] :
          SessionUsable(s) => async_sessions[l] = s

\* C5 witness: on the open manager a session that died was replaced, and the
\* new session was returned
C5_Witness ==
    /\ ~async_closeStarted
    /\ \E l \in Loops : \E s1, s2 \in async_handed[l] :
          /\ sess_died[s1]
          /\ s2 # s1
          /\ SessionUsable(s2)
          /\ async_sessions[l] = s2

\* C6: every session get_session() returned to a caller running on loop l
\* was constructed while l was the running loop, and callers on different
\* loops never get the same session.
C6_LoopConfined ==
    /\ \A l \in Loops : \A s \in async_handed[l] : sess_loop[s] = l
    /\ \A l1, l2 \in Loops :
          l1 # l2 => async_handed[l1] \cap async_handed[l2] = {}

\* C6 witness: callers on the manager's own loop and on another loop have
\* both been handed a session
C6_Witness ==
    \E l \in Loops :
        /\ l # HomeLoop
        /\ async_handed[l] # {}
        /\ async_handed[HomeLoop] # {}

(***************************************************************************)
(* Hybrid client: properties                                               *)
(***************************************************************************)
\* C7: a hybrid operation called without streaming returns the value itself
\* when no loop is running, and inside a running loop returns an awaitable,
\* which resolves to the value when awaited.
C7_HybridReturns ==
    (disp_call.op \in HybridOps /\ ~disp_call.stream) =>
        IF disp_call.ctx = 0
          THEN disp_call.shape = "value"
          ELSE /\ disp_call.shape = "coroutine"
               /\ disp_call.awaited \in {"none", "value"}

\* C8: Blossom() on a thread with no running event loop does not raise.
C8_ConstructsWithoutLoop ==
    disp_where = 0 => disp_client # "raised"

(***************************************************************************)
(* with_retry: properties                                                  *)
(***************************************************************************)
\* the wire failures the specification classifies retryable: a transfer
\* failure, a rate limit, a status of the retryable set
RetryableFailures ==
    {[fail |-> "chunked", status |-> 0]}
    \cup {[fail |-> "none", status |-> c] : c \in {429, 502, 503, 504, 520}}

\* C9: a request with max_attempts = 3 whose every wire call failed with a
\* retryable failure has made exactly 3 wire calls when it ends, and it ends
\* by raising (sync_wrapper and async_wrapper alike).
C9_ThreeWireCalls ==
    (/\ retry_pc = "done"
     /\ retry_max = MAX_RETRIES
     /\ retry_out # "returned"
     /\ retry_seen \subseteq RetryableFailures) =>
        /\ retry_calls = MAX_RETRIES
        /\ retry_out = "raised"

\* C10: when a request raises after its last attempt (as many wire calls as
\* max_attempts), the error that reaches the caller is the error object the
\* last wire call raised: same type, same fields, same identity.
C10_FinalErrorReachesCaller ==
    (retry_out = "raised" /\ retry_calls = retry_max) =>
        /\ retry_raised = retry_final
        /\ retry_raised # NoError
        /\ retry_raised.id = retry_max

\* C10 witness: three attempts were made, the first two were retried, and
\* the request raised
C10_Witness ==
    /\ retry_out = "raised"
    /\ retry_max = MAX_RETRIES
    /\ retry_calls = MAX_RETRIES
    /\ retry_attempt = MAX_RETRIES - 1
    /\ retry_raised.id = MAX_RETRIES

\* the statuses the specification lists as retryable
SpecRetryableStatuses == {502, 503, 504, 520}

\* C11: a wire response with status 502, 503, 504 or 520 never ends the
\* request while attempts remain (fewer wire calls made than max_attempts):
\* the wrapper waits and tries again.
C11_RetryableStatuses ==
    ~(/\ retry_out = "raised"
      /\ retry_final.type \in {"HTTPError", "ClientResponseError"}
      /\ retry_final.status \in SpecRetryableStatuses
      /\ retry_calls < retry_max)

\* the retry-after hints a 429 response carries that parse as a number of
\* seconds: its Retry-After header (the signal the specification names) and
\* the retry_after field of its body
ParseableHints(r) == (r.header \cup r.body) \ {MalformedHint}

\* C12: after a 429 answer with attempts remaining the wrapper sleeps, for
\* the seconds of a parseable hint of the response when it carries one and
\* for DEFAULT_RETRY_AFTER seconds when the hint is absent or malformed.
C12_RateLimitWait ==
    (/\ retry_resp.status = 429
     /\ retry_calls < retry_max
     /\ retry_pc \in {"sleep", "done"}) =>
        /\ retry_pc = "sleep"
        /\ IF ParseableHints(retry_resp) = {}
             THEN retry_wait = DEFAULT_RETRY_AFTER * JitterSteps
             ELSE \E n \in ParseableHints(retry_resp) :
                      retry_wait = n * JitterSteps

\* the exponential schedule of the specification, in ticks: the waits
\* min(2^attempt + j, cap) for the jitters j of [0, 1]
ExponentialSchedule(attempt, cap) ==
    {Min((2 ^ attempt) * JitterSteps + j, cap * JitterSteps) :
        j \in 0..JitterSteps}

\* C13: whenever the wrapper sleeps after a failure that is no rate limit,
\* the wait is one of the exponential schedule for the zero-based attempt,
\* with cap 32 after an HTTP status and cap 16 after a transfer failure,
\* whatever Retry-After header the response carried.
C13_ExponentialOnly ==
    (retry_pc = "sleep" /\ retry_resp.status # 429) =>
        retry_wait \in ExponentialSchedule(
                           retry_attempt,
                           IF retry_resp.fail = "none"
                             THEN MAX_EXPONENTIAL_BACKOFF
                             ELSE MAX_CHUNK_ENCODING_BACKOFF)

\* C15: a 401 answer ends the request at once, in sync_wrapper and in
\* async_wrapper and whatever max_attempts is: the caller gets the
\* AuthenticationError of that wire call, and a request whose only failure
\* was a 401 has made exactly one wire call.
C15_AuthTerminal ==
    retry_resp.status = 401 =>
        /\ retry_pc = "done"
        /\ retry_out = "raised"
        /\ retry_raised.type = "AuthenticationError"
        /\ retry_raised.id = retry_calls
        /\ (retry_seen = {[fail |-> "none", status |-> 401]} =>
                retry_calls = 1)

\* C15 witness: the first answer of a request with three attempts was 401
C15_Witness ==
    /\ retry_resp.status = 401
    /\ retry_max = MAX_RETRIES
    /\ retry_calls = 1
    /\ retry_out = "raised"

\* the caller got the raw HTTP error of the last wire call, which ended the
\* request; a request that saw no other failure made exactly one wire call
RawErrorEndsRequest ==
    /\ retry_pc = "done"
    /\ retry_out = "raised"
    /\ retry_raised.type \in {"HTTPError", "ClientResponseError"}
    /\ retry_raised.status = retry_resp.status
    /\ retry_raised.id = retry_calls
    /\ (retry_seen = {WireClass(retry_resp)} => retry_calls = 1)

\* C16 as the specification states it: every answer with an error status
\* that is neither of the retryable set nor 429 ends the request at once
\* with the raw HTTP error of that wire call.
C16_AnyOtherStatusRaw ==
    (/\ retry_resp.status >= 400
     /\ retry_resp.status \notin SpecRetryableStatuses \cup {429}) =>
        RawErrorEndsRequest

\* C16: every answer with an error status that is neither of the retryable
\* set, nor 429, nor one of the classified statuses 401 and 402 ends the
\* request at once with the raw HTTP error of that wire call (HTTPError,
\* ClientResponseError), not with an error of the library.
C16_UnclassifiedStatusRaw ==
    (/\ retry_resp.status >= 400
     /\ retry_resp.status \notin SpecRetryableStatuses \cup {401, 402, 429}) =>
        RawErrorEndsRequest

\* C16 witness: the first answer of a request with three attempts was 404
C16_Witness ==
    /\ retry_resp.status = 404
    /\ retry_max = MAX_RETRIES
    /\ retry_calls = 1
    /\ retry_raised.status = 404

\* C17: a wire call that exceeds its timeout ends the request at once, in
\* sync_wrapper and in async_wrapper: the caller gets the timeout error of
\* that wire call, no wait and no further attempt follow, and a request
\* whose only failure was the timeout has made exactly one wire call.
C17_TimeoutTerminal ==
    retry_resp.fail = "timeout" =>
        /\ retry_pc = "done"
        /\ retry_out = "raised"
        /\ retry_raised.type \in {"Timeout", "TimeoutError"}
        /\ retry_raised.id = retry_calls
        /\ (retry_seen = {[fail |-> "timeout", status |-> 0]} =>
                retry_calls = 1)

\* C17 witness: the first wire call of an async request with three attempts
\* timed out
C17_Witness ==
    /\ retry_resp.fail = "timeout"
    /\ retry_mode = "async"
    /\ retry_max = MAX_RETRIES
    /\ retry_calls = 1
    /\ retry_out = "raised"

\* C19: a 402 answer never leads to a wait or another attempt: on an
\* endpoint that needs no authentication (_is_audio_endpoint) the wire call
\* returns its response and the request returns; on any other endpoint the
\* request ends with the BlossomError "Payment Required" of that wire call,
\* after exactly one wire call when the 402 was its only failure.
C19_PaymentRequired ==
    retry_resp.status = 402 =>
        /\ retry_pc = "done"
        /\ IF retry_audio
             THEN /\ retry_out = "returned"
                  /\ retry_final = NoError
                  /\ (retry_seen = {} => retry_calls = 1)
             ELSE /\ retry_out = "raised"
                  /\ retry_raised.type = "BlossomError"
                  /\ retry_raised.status = 402
                  /\ retry_raised.id = retry_calls
                  /\ (retry_seen = {[fail |-> "none", status |-> 402]} =>
                          retry_calls = 1)

\* C19 witnesses: a first answer of 402 on an endpoint that needs a token,
\* and one on an endpoint that needs none
C19_WitnessRaised ==
    /\ retry_resp.status = 402
    /\ ~retry_audio
    /\ retry_max = MAX_RETRIES
    /\ retry_calls = 1
    /\ retry_out = "raised"

C19_WitnessIgnored ==
    /\ retry_resp.status = 402
    /\ retry_audio
    /\ retry_max = MAX_RETRIES
    /\ retry_calls = 1
    /\ retry_out = "returned"

C19_Witness == C19_WitnessRaised \/ C19_WitnessIgnored

(***************************************************************************)
(* _calculate_wait_time: properties                                        *)
(***************************************************************************)
\* C14 as the specification states it: for every attempt a and each cap the
\* wait returned lies within [2^a, 2^a + 1] and does not exceed the cap.
C14_WithinPowerAndCap ==
    backoff_pc = "done" =>
        /\ backoff_wait >= (2 ^ backoff_attempt) * JitterSteps
        /\ backoff_wait <= (2 ^ backoff_attempt + 1) * JitterSteps
        /\ backoff_wait <= backoff_cap * JitterSteps

\* C14: for every attempt a and each cap the wait returned never exceeds
\* the cap; it lies within [2^a, 2^a + 1] when 2^a does not exceed the cap,
\* and is the cap itself when 2^a exceeds it.
C14_BackoffBound ==
    backoff_pc = "done" =>
        /\ backoff_wait <= backoff_cap * JitterSteps
        /\ IF 2 ^ backoff_attempt <= backoff_cap
             THEN /\ backoff_wait >= (2 ^ backoff_attempt) * JitterSteps
                  /\ backoff_wait <= (2 ^ backoff_attempt + 1) * JitterSteps
             ELSE backoff_wait = backoff_cap * JitterSteps

\* C14 witness: a call whose power of two is beyond the cap returned the cap
C14_Witness ==
    /\ backoff_pc = "done"
    /\ backoff_attempt = 5
    /\ backoff_cap = MAX_CHUNK_ENCODING_BACKOFF
    /\ backoff_wait = MAX_CHUNK_ENCODING_BACKOFF * JitterSteps

(***************************************************************************)
(* image.generate and image.generate_url: properties                       *)
(***************************************************************************)
\* C18: image.generate with a prompt longer than MAX_IMAGE_PROMPT_LENGTH
\* raises a ValidationError of kind INVALID_PARAMETER on every client,
\* and neither _make_request nor any other wire call was made.
C18_ValidationBeforeNetwork ==
    (/\ req_pc = "done"
     /\ req_op = "generate"
     /\ Len(req_prompt) > MAX_IMAGE_PROMPT_LENGTH) =>
        \A t \in Tokens :
            /\ req_out[t].result = "raised"
            /\ req_out[t].error = LibError("ValidationError",
                                           "INVALID_PARAMETER")
            /\ req_out[t].calls = 0
            /\ req_out[t].fetched = <<>>

\* the texts the caller passed
CallerTexts ==
    {req_prompt, req_params.model, req_params.seed,
     req_params.negative_prompt, req_params.image}

\* the URLs a call put on the wire or returned
UrlsOf(o) == {o.url, o.fetched}

\* C20: the URLs of a call of generate (sync or async) or generate_url are
\* the same on clients that differ in their token only; lowercased they
\* hold neither "token=" nor "key="; they do not hold the token unless the
\* caller passed it in the prompt or a parameter; and a request carries the
\* token as "Bearer <token>" in its Authorization header and nowhere else.
C20_TokenNotInUrl ==
    req_pc = "done" =>
        \A t \in Tokens :
            /\ UrlsOf(req_out[t]) = UrlsOf(req_out[NoToken])
            /\ req_out[t].url = req_out[NoToken].url
            /\ \A u \in UrlsOf(req_out[t]) :
                   /\ ~Contains(lower(u), <<"t", "o", "k", "e", "n", "=">>)
                   /\ ~Contains(lower(u), <<"k", "e", "y", "=">>)
                   /\ (/\ t # NoToken
                       /\ \A c \in CallerTexts : ~Contains(c, t)) =>
                          ~Contains(u, t)
            /\ req_out[t].result = "requested" =>
                   req_out[t].auth =
                       IF t = NoToken THEN <<>> ELSE <<"B", "e", "a", "r", "e", "r", " ">> \o t

\* C20 witness: a request went out for a prompt that holds "key=" on a
\* client that has a token
C20_Witness ==
    /\ req_pc = "done"
    /\ req_op = "generate"
    /\ Contains(req_prompt, <<"k", "e", "y", "=">>)
    /\ req_params.image # None
    /\ req_out[<<"s", "1">>].result = "requested"
    /\ req_out[<<"s", "1">>].auth # <<>>

(***************************************************************************)
(* Streaming: properties                                                   *)
(***************************************************************************)
\* the ways a streamed request is over
SseOver == {"exhausted", "done", "raised", "abandoned"}

\* C21: every response opened with stream=True is closed on every exit
\* path: once the streamed request is over (source exhausted, sentinel
\* seen, error raised for a status >= 400 on any attempt, error while
\* decoding, consumer gone), no response opened for it is left unclosed
C21_StreamsClosed == sse_pc \in SseOver => sse_unclosed = 0

\* the frames of the example: data: [DONE] and the delta frames of a and b
SentinelFrame == Line(FALSE, "data", Sentinel)
FrameA == Line(FALSE, "data", Delta(<<"a">>))
FrameB == Line(FALSE, "data", Delta(<<"b">>))

\* C22: after the sentinel the decoder yields no further content and reads
\* no further line: a sentinel frame is the last line ever read and ends
\* the stream, the lines a, b, [DONE] yield exactly a then b, and a stream
\* that is done never reads or yields again
C22_NothingAfterDone ==
    /\ [](\A i \in 1..Len(sse_read) :
              sse_read[i] = SentinelFrame =>
                  i = Len(sse_read) /\ sse_pc = "done")
    /\ [](sse_read = <<FrameA, FrameB, SentinelFrame>> =>
              sse_out = <<<<"a">>, <<"b">>>>)
    /\ [][sse_pc = "done" =>
              sse_read' = sse_read /\ sse_out' = sse_out]_vars

C22_Witness ==
    /\ sse_pc = "done"
    /\ sse_read = <<FrameA, FrameB, SentinelFrame>>
    /\ sse_out = <<<<"a">>, <<"b">>>>

\* C23: a malformed frame never aborts the stream: no data line, whether
\* its payload is no JSON or JSON of another shape than the nested delta,
\* makes the decoder raise
C23_MalformedNeverAborts == sse_pc = "raised" => sse_cause # "decode"

\* the content fragment a line contributes according to the wire format:
\* the non-empty content of a data frame with a nested delta, else nothing
Fragment(line) ==
    IF /\ line.marker = "data"
       /\ line.payload.t = "object"
       /\ line.payload.choices = "records"
       /\ line.payload.delta = "record"
       /\ line.payload.content \notin {Absent, None, <<>>}
      THEN <<line.payload.content>>
      ELSE <<>>

\* the fragments of the lines before the first sentinel frame
RECURSIVE Fragments(_)
Fragments(lines) ==
    IF lines = <<>> \/ Head(lines).payload = Sentinel THEN <<>>
    ELSE Fragment(Head(lines)) \o Fragments(Tail(lines))

\* the line as the decoder at work sees it
Seen(line) == IF Strips(sse_impl) THEN strip(line) ELSE line

\* C24: for every sequence of lines the deltas yielded are, in order and
\* without loss or duplication, the non-empty content fragments of the
\* well-formed data frames before the first sentinel: the decoder stops
\* early only at a sentinel frame, never fails on a line, and has yielded
\* exactly the fragments of the lines it read
C24_EmittedEqualsFragments ==
    /\ sse_pc = "done" => Seen(sse_read[Len(sse_read)]) = SentinelFrame
    /\ sse_cause # "decode"
    /\ sse_pc \in {"streaming", "exhausted", "done"} =>
           sse_out = Fragments([i \in 1..Len(sse_read) |->
                                    IF Seen(sse_read[i]).indent
                                      THEN Line(TRUE, "none", PyNone)
                                      ELSE Seen(sse_read[i])])

\* C25: when the line source fails with an I/O error, the consumer gets a
\* StreamError, not the exception of the transport
C25_SourceFailureIsStreamError ==
    sse_cause = "source" => sse_error = "StreamError"

(***************************************************************************)
(* Hybrid client: the dispatcher inside and outside a loop                 *)
(***************************************************************************)
\* C26: with a loop running on the thread the dispatcher never drives a
\* coroutine to its value: what the call returns in a loop is never the
\* value, a coroutine that the method returned is handed back as it is, and
\* _ensure_sync called there raises RuntimeError
C26_NeverBlocksInLoop ==
    (disp_call # NoCall /\ disp_call.ctx # 0) =>
        /\ disp_call.shape # "value"
        /\ IF disp_call.op = "_ensure_sync"
             THEN disp_call.shape = "RuntimeError"
             ELSE disp_call.result = "coroutine" =>
                      disp_call.shape = "coroutine"

C26_Witness ==
    /\ disp_call.op = "_ensure_sync"
    /\ disp_call.ctx # 0
    /\ disp_call.shape = "RuntimeError"

\* what a method can return that is no coroutine
NonCoroutines == {"value", "iterator", "generator", "async_generator"}

\* C27: in both contexts a result that is no coroutine comes back from the
\* dispatcher as it was returned by the method: a plain value as that
\* value, a lazy sequence as that sequence, nothing pulled from it
C27_NonCoroutineUnchanged ==
    (disp_call.op \in HybridOps /\ disp_call.result \in NonCoroutines) =>
        disp_call.shape = disp_call.result

C27_Witness ==
    /\ disp_call.op = "text.generate"
    /\ disp_call.stream
    /\ disp_call.ctx = 0
    /\ disp_call.result = "iterator"
    /\ disp_call.shape = "iterator"

\* C28: inside a running loop client.text.generate(prompt, stream=True)
\* returns an awaitable, and awaiting it gives the async iterator of the
\* chunks
C28_StreamAwaitable ==
    (disp_call.op = "text.generate" /\ disp_call.stream
         /\ disp_call.ctx # 0) =>
        /\ disp_call.shape = "coroutine"
        /\ disp_call.awaited # "TypeError"

(***************************************************************************)
(* Clients in sequence: properties                                         *)
(***************************************************************************)
\* C29: a client or generator constructed after another one was closed, in
\* the same thread or the same loop, can acquire a session: no request of a
\* client that was opened after a with block was left is refused
C29_ReusableAfterClose ==
    \A c \in Clients :
        (life_client[c] = "open" /\ life_born[c] >= 1) =>
            life_last[c] # "RuntimeError"

TerminalFailures ==
    {[fail |-> "timeout", status |-> 0]}
    \cup {[fail |-> "none", status |-> c] : c \in {400, 401, 404, 500}}

\* C31: a request makes at most max_attempts wire calls, one per round of
\* the loop; after a wire call that succeeded or failed with a failure that
\* is not retryable the request is over and makes no further wire call; and
\* a request that returns returns the answer of its first successful wire
\* call, all calls before it having failed
C31_SequentialBounded ==
    /\ [](retry_calls <= retry_max)
    /\ [](retry_out = "returned" =>
              /\ _make_request(retry_mode, retry_audio, retry_resp) = NoError
              /\ retry_calls = retry_attempt + 1)
    /\ []((retry_calls > 0 /\ WireClass(retry_resp) \in TerminalFailures) =>
              retry_pc = "done")
    /\ [][retry_pc = "done" =>
              retry_calls' = retry_calls /\ retry_resp' = retry_resp]_vars

\* C31 witness: the third wire call of a request succeeded after two failures
C31_Witness ==
    /\ retry_out = "returned"
    /\ retry_calls = 3
    /\ retry_attempt = 2

(***************************************************************************)
(* Session managers: get_session() racing close()                          *)
(***************************************************************************)
\* C32: on one SyncSessionManager used by several threads, every
\* get_session() call that returns returns a session (never None), and once a
\* close() has returned every session the manager has constructed has been
\* closed, so none is constructed or left open afterwards
C32_SyncGetVersusClose ==
    /\ \A t \in SyncReturnedGets : sync_val[t] # 0
    /\ sync_closeReturned =>
          \A s \in 1..sync_created : sync_closeCalls[s] >= 1

\* C33: on one AsyncSessionManager whose callers all run on one loop, once a
\* close() has completed no session the manager constructed is open, whether
\* it was cached before the close() or is made afterwards by a get_session()
\* that was waiting for the lock while close() ran
C33_AsyncGetVersusClose ==
    (/\ async_closeReturned > 0
     /\ \A s \in AsyncConstructed : sess_loop[s] = HomeLoop) =>
        \A s \in AsyncConstructed : ~SessionUsable(s)

(***************************************************************************)
(* Clients side by side                                                    *)
(***************************************************************************)
\* C34: closing one client does not affect another that is still open in
\* the same thread or loop: a client constructed before any client was
\* closed, and still open after another one has been closed, is not refused
\* a session
C34_CloseLeavesOthersUsable ==
    \A c \in Clients :
        (life_client[c] = "open" /\ life_born[c] = 0 /\ life_cycles > 0) =>
            life_last[c] # "RuntimeError"

(***************************************************************************)
(* Model cache: the lock and the event loop                                *)
(***************************************************************************)
\* C35: two coroutines of one loop that run the async initialisation while
\* the cache is not valid both return: the thread of the loop is never
\* stopped inside acquire() of the cache lock while the holder of that lock
\* is a coroutine of the same loop, which only that thread could resume
C35_LoopNeverBlockedForever ==
    \A c \in Coros :
        cache_pc[c] = "blocked" => cache_lock \notin Coros

(***************************************************************************)
(* with_retry: the request id across the attempts                          *)
(***************************************************************************)
\* C36: all wire calls of one logical request carry the same X-Request-ID
\* value, whether the caller named an id or the first attempt generated it
C36_OneRequestId == Cardinality(retry_ids) <= 1

(***************************************************************************)
(* with_retry: sync_wrapper against async_wrapper                          *)
(***************************************************************************)
\* what wrapper mode decides when the wire answers r to the call of the
\* given attempt: "return", or whether it retries and after which wait
PolicyDecision(mode, audio, r, attempt, max_attempts, j) ==
    LET e == _make_request(mode, audio, r)
        d == IF mode = "sync"
               THEN sync_wrapper_except(e, attempt, max_attempts, j)
               ELSE async_wrapper_except(e, attempt, max_attempts, j)
    IN  IF e = NoError THEN [decision |-> "return", wait |-> 0]
        ELSE IF d.retry THEN [decision |-> "retry", wait |-> d.wait]
        ELSE [decision |-> "raise", wait |-> 0]

\* C37: after every wire call of a request, the sync and the async wrapper
\* take the same decision on the answer the wire gave (return, raise, or
\* retry) and, when they retry, wait the same time
C37_WrappersAgree ==
    (retry_calls > 0 /\ retry_pc \in {"sleep", "done"}) =>
        \A j \in 0..JitterSteps :
            PolicyDecision("sync", retry_audio, retry_resp, retry_attempt,
                           retry_max, j)
            = PolicyDecision("async", retry_audio, retry_resp, retry_attempt,
                             retry_max, j)

(***************************************************************************)
(* Streaming: stream_sse against astream_sse                               *)
(***************************************************************************)
\* the decoder impl run over lines from its first line on: the deltas it
\* yields, how it ends, and how many of the lines it has not got past
RECURSIVE DecoderRun(_, _, _)
DecoderRun(impl, lines, out) ==
    IF lines = <<>> THEN [out |-> out, end |-> "exhausted", left |-> 0]
    ELSE LET r == DecodeLine(impl, Head(lines))
         IN  IF r.act = "emit"
               THEN DecoderRun(impl, Tail(lines), Append(out, r.text))
             ELSE IF r.act = "skip"
               THEN DecoderRun(impl, Tail(lines), out)
             ELSE [out |-> out, end |-> r.act, left |-> Len(lines)]

\* C38: on the lines a stream has delivered, stream_sse and astream_sse
\* yield the same deltas in the same order and stop at the same line,
\* lines with leading whitespace included
C38_DecodersAgree ==
    sse_impl \in {"stream_sse", "astream_sse"} =>
        DecoderRun("stream_sse", sse_read, <<>>)
        = DecoderRun("astream_sse", sse_read, <<>>)

(***************************************************************************)
(* Base API clients: where the token travels                               *)
(***************************************************************************)
\* C39: whatever the method, a request of a client with a token configured
\* carries the token in the Authorization header and nowhere in the query
\* string
C39_TokenOnlyInHeader ==
    (api_attempts > 0 /\ api_token # NoToken) =>
        /\ \A kv \in api_query : kv[2] # api_token
        /\ <<"Authorization", Bearer(api_token)>> \in api_headers

SpecRetryFair == SpecRetry /\ WF_vars(NextRetry)

\* every request comes to an end (holds of SpecRetryFair)
RetryTerminates == <>(retry_pc = "done")

====
